---- MODULE Spec2Model ----
(***************************************************************************)
(* Micro-ID: a 20-bit serial number on a 5x5 dot matrix.                   *)
(*                                                                         *)
(* Spec models the codec session: generate-test-microid.py encodes a      *)
(* serial into a grid, the picture of the grid is read back as text by an  *)
(* external reader (which may misread cells and add stray characters),     *)
(* and decode-visual-grid.py converts the text back into a serial.         *)
(*                                                                         *)
(* Strings are sequences of one-character strings; the character at       *)
(* Python index i is element i + 1.  Grids are functions over 0..4, as in  *)
(* the source.                                                             *)
(***************************************************************************)
EXTENDS Integers, Sequences, FiniteSets, TLC

(***************************************************************************)
(* Bounds of the model.                                                    *)
(***************************************************************************)
\* serials tried: every value of the LowBits lowest and HighBits highest bits
LowBits == 2
HighBits == 1
\* how far outside [0, 0xFFFFF] the serials tried go
MaxExcess == 1
\* how many cells the reader misreads, drops or adds, and stray characters
MaxCorrupt == 2

(***************************************************************************)
(* Program constants.                                                      *)
(***************************************************************************)
MAX_SERIAL == 1048575
SERIAL_WIDTH == 20
GRID_LEN == 25

BinaryChars == {"0", "1"}
\* characters other than '0' and '1' that a reader's answer may contain
NoiseChars == {" ", "x"}

RECURSIVE Pow2(_)
Pow2(n) == IF n = 0 THEN 1 ELSE 2 * Pow2(n - 1)

SerialInputs ==
    { hi * Pow2(SERIAL_WIDTH - HighBits) + lo :
        hi \in 0 .. Pow2(HighBits) - 1, lo \in 0 .. Pow2(LowBits) - 1 }
    \cup {5, MAX_SERIAL}
    \cup { -k : k \in 1 .. MaxExcess }
    \cup { MAX_SERIAL + k : k \in 1 .. MaxExcess }

(***************************************************************************)
(* Number <-> text conversions of the Python runtime.                      *)
(***************************************************************************)
\* str(d) of a single binary digit
DigitChar(d) == IF d = 0 THEN "0" ELSE "1"

\* int(c) of a single character: "0" and "1" only, anything else raises
IsDigitChar(c) == c \in BinaryChars
IntOfChar(c) == IF c = "1" THEN 1 ELSE 0

\* the binary digits of n >= 0, most significant first, no padding
RECURSIVE BinDigits(_)
BinDigits(n) ==
    IF n < 2 THEN <<DigitChar(n)>>
    ELSE Append(BinDigits(n \div 2), DigitChar(n % 2))

RECURSIVE ZeroPad(_, _)
ZeroPad(s, width) == IF Len(s) >= width THEN s ELSE ZeroPad(<<"0">> \o s, width)

\* format(n, '020b'): sign first, zero-padded to a total width of 20
Format020b(n) ==
    IF n >= 0 THEN ZeroPad(BinDigits(n), SERIAL_WIDTH)
    ELSE <<"-">> \o ZeroPad(BinDigits(-n), SERIAL_WIDTH - 1)

\* int(s, 2) of a string of binary digits
RECURSIVE IntBase2(_)
IntBase2(s) ==
    IF Len(s) = 0 THEN 0
    ELSE 2 * IntBase2(SubSeq(s, 1, Len(s) - 1)) + IntOfChar(s[Len(s)])

RECURSIVE SumSeq(_)
SumSeq(s) == IF Len(s) = 0 THEN 0 ELSE s[1] + SumSeq(Tail(s))

(***************************************************************************)
(* generate-test-microid.py                                                *)
(***************************************************************************)
\* the range test with its upper limit one too high
InvalidSerialOffByOne(serial) == serial < 0 \/ serial > MAX_SERIAL + 1

\* serial_to_binary raises ValueError for these serials
InvalidSerial(serial) == serial < 0 \/ serial > MAX_SERIAL

serial_to_binary(serial) == Format020b(serial)

calculate_parity(binary) ==
    LET ones == Cardinality({ i \in DOMAIN binary : binary[i] = "1" })
    IN  IF ones % 2 = 0 THEN 0 ELSE 1

\* anchors in three corners only, which a rotation does not map onto themselves
EncodeAnchorsThree == { <<0, 0>>, <<0, 4>>, <<4, 0>> }

\* the four corner cells set to 1 by binary_to_grid
EncodeAnchors == { <<0, 0>>, <<0, 4>>, <<4, 0>>, <<4, 4>> }

\* the table with the cells of bit 19 and bit 18 exchanged
EncodeCellsSwapped ==
    << <<0, 2>>, <<0, 1>>, <<0, 3>>,
       <<1, 0>>, <<1, 1>>, <<1, 2>>, <<1, 3>>, <<1, 4>>,
       <<2, 0>>, <<2, 1>>, <<2, 2>>, <<2, 3>>, <<2, 4>>,
       <<3, 0>>, <<3, 1>>, <<3, 2>>, <<3, 3>>, <<3, 4>>,
       <<4, 1>>, <<4, 2>> >>

\* EncodeCells[i + 1] is the cell binary_to_grid writes int(binary[i]) to
EncodeCells ==
    << <<0, 1>>, <<0, 2>>, <<0, 3>>,
       <<1, 0>>, <<1, 1>>, <<1, 2>>, <<1, 3>>, <<1, 4>>,
       <<2, 0>>, <<2, 1>>, <<2, 2>>, <<2, 3>>, <<2, 4>>,
       <<3, 0>>, <<3, 1>>, <<3, 2>>, <<3, 3>>, <<3, 4>>,
       <<4, 1>>, <<4, 2>> >>

\* the cell binary_to_grid writes the parity bit to
EncodeParityCell == <<4, 3>>

\* binary_to_grid reads binary[0] .. binary[19] with int(): it raises on a
\* string that is too short or holds another character there
BinaryReadable(binary) ==
    /\ Len(binary) >= SERIAL_WIDTH
    /\ \A i \in 1 .. SERIAL_WIDTH : IsDigitChar(binary[i])

binary_to_grid(binary) ==
    LET parity == calculate_parity(binary)
    IN  [ row \in 0 .. 4 |->
            [ col \in 0 .. 4 |->
                IF <<row, col>> \in EncodeAnchors THEN 1
                ELSE IF <<row, col>> = EncodeParityCell THEN parity
                ELSE IF \E i \in 1 .. SERIAL_WIDTH : EncodeCells[i] = <<row, col>>
                     THEN IntOfChar(binary[CHOOSE i \in 1 .. SERIAL_WIDTH :
                                                 EncodeCells[i] = <<row, col>>])
                     ELSE 0 ] ]

\* the 25-character row-major text of a grid, row 0 first
GridText(grid) ==
    [ k \in 1 .. GRID_LEN |-> DigitChar(grid[(k - 1) \div 5][(k - 1) % 5]) ]

(***************************************************************************)
(* decode-visual-grid.py                                                   *)
(***************************************************************************)
\* a filter that removes blanks only
RECURSIVE CleanInputBlanksOnly(_)
CleanInputBlanksOnly(s) ==
    IF Len(s) = 0 THEN <<>>
    ELSE IF s[1] # " " THEN <<s[1]>> \o CleanInputBlanksOnly(Tail(s))
    ELSE CleanInputBlanksOnly(Tail(s))

\* ''.join(c for c in grid_str if c in '01')
RECURSIVE CleanInput(_)
CleanInput(s) ==
    IF Len(s) = 0 THEN <<>>
    ELSE IF s[1] \in BinaryChars THEN <<s[1]>> \o CleanInput(Tail(s))
    ELSE CleanInput(Tail(s))

\* grid[row][col] = int(grid_str[row * 5 + col])
ParseGrid(grid_str) ==
    [ row \in 0 .. 4 |-> [ col \in 0 .. 4 |-> IntOfChar(grid_str[row * 5 + col + 1]) ] ]

\* the reading order with the last two data cells exchanged
DecodeOrderSwapped ==
    << <<0, 1>>, <<0, 2>>, <<0, 3>>,
       <<1, 0>>, <<1, 1>>, <<1, 2>>, <<1, 3>>, <<1, 4>>,
       <<2, 0>>, <<2, 1>>, <<2, 2>>, <<2, 3>>, <<2, 4>>,
       <<3, 0>>, <<3, 1>>, <<3, 2>>, <<3, 3>>, <<3, 4>>,
       <<4, 2>>, <<4, 1>> >>

\* DecodeOrder[j] is the cell read into bits[20 - j]: bits[19] first, bits[0] last
DecodeOrder ==
    << <<0, 1>>, <<0, 2>>, <<0, 3>>,
       <<1, 0>>, <<1, 1>>, <<1, 2>>, <<1, 3>>, <<1, 4>>,
       <<2, 0>>, <<2, 1>>, <<2, 2>>, <<2, 3>>, <<2, 4>>,
       <<3, 0>>, <<3, 1>>, <<3, 2>>, <<3, 3>>, <<3, 4>>,
       <<4, 1>>, <<4, 2>> >>

\* the data cells read least significant bit first
DecodeCellReversed(k) == DecodeOrder[k + 1]

\* the cell grid_to_serial reads bits[k] from
DecodeCell(k) == DecodeOrder[SERIAL_WIDTH - k]

\* the parity cell with row and column exchanged
DecodeParityCellTransposed == <<3, 4>>

\* the cell grid_to_serial reads parity_bit from
DecodeParityCell == <<4, 3>>

\* the anchor test without the bottom-left corner
AnchorsValidThree(grid) ==
    /\ grid[0][0] = grid[0][4]
    /\ grid[0][4] = grid[4][4]
    /\ grid[4][4] = 1

\* anchors_valid = (grid[0][0] == grid[0][4] == grid[4][0] == grid[4][4] == 1)
AnchorsValid(grid) ==
    /\ grid[0][0] = grid[0][4]
    /\ grid[0][4] = grid[4][0]
    /\ grid[4][0] = grid[4][4]
    /\ grid[4][4] = 1

\* the parity test summing bits[1..19] only
ParityValidSkipsBit0(bits, parity_bit) ==
    LET ones == SumSeq([ j \in 1 .. SERIAL_WIDTH - 1 |-> bits[j] ])
    IN  (ones + parity_bit) % 2 = 0

\* ones = sum(bits); parity_valid = (ones + parity_bit) % 2 == 0
ParityValid(bits, parity_bit) ==
    LET ones == SumSeq([ j \in 1 .. SERIAL_WIDTH |-> bits[j - 1] ])
    IN  (ones + parity_bit) % 2 = 0

\* the length test of grid_to_serial: TRUE when the cleaned text is refused
InvalidGridLength(cleaned) == Len(cleaned) # GRID_LEN

grid_to_serial(grid_str) ==
    LET cleaned == CleanInput(grid_str)
    IN  IF InvalidGridLength(cleaned)
        THEN [ ok |-> FALSE, error |-> "Invalid grid length", length |-> Len(cleaned) ]
        ELSE
          LET grid == ParseGrid(cleaned)
              bits == [ k \in 0 .. SERIAL_WIDTH - 1 |->
                          grid[DecodeCell(k)[1]][DecodeCell(k)[2]] ]
              parity_bit == grid[DecodeParityCell[1]][DecodeParityCell[2]]
              \* ''.join(str(bits[i]) for i in range(19, -1, -1))
              binary_str == [ j \in 1 .. SERIAL_WIDTH |-> DigitChar(bits[SERIAL_WIDTH - j]) ]
          IN  [ ok |-> TRUE,
                serial |-> IntBase2(binary_str),
                binary |-> binary_str,
                parity_valid |-> ParityValid(bits, parity_bit),
                anchors_valid |-> AnchorsValid(grid),
                grid |-> cleaned ]

(***************************************************************************)
(* State of a codec session.                                               *)
(***************************************************************************)
VARIABLES
    pc,        \* where the session is
    serial,    \* the serial given to the generator
    binary,    \* serial_to_binary(serial), <<>> before
    grid,      \* binary_to_grid(binary), <<>> before
    cells,     \* the binary characters the reader gave, in order
    text,      \* the reader's answer: cells with stray characters between
    flipped,   \* the cells of the grid the reader got wrong
    corrupt,   \* number of reader errors so far
    result,    \* what grid_to_serial returned, <<>> before
    image      \* the picture render_grid drew, <<>> before

codecVars == <<pc, serial, binary, grid, cells, text, flipped, corrupt, result, image>>

(***************************************************************************)
(* State of a preprocessor run (microid-preprocessor.py) and of the        *)
(* decoding of the crops it saved.                                         *)
(***************************************************************************)
VARIABLES
    ppc,       \* where main / process is
    args,      \* the command line: module, debug, tight, raw
    photo,     \* the input file: readable, w, h, contours, serial
    pre,       \* the MicroIDPreprocessor object, <<>> before construction
    loc,       \* the local variables of process
    outcome,   \* the dictionary process returned, <<>> before
    reports,   \* what decoding each saved crop gave, in crop order
    files      \* the loop of main: the files still to process, the number done

pipeVars == <<ppc, args, photo, pre, loc, outcome, reports, files>>

(***************************************************************************)
(* State of a session of the layout app (Production Layout App v1.4.py,    *)
(* class PCBViewer).                                                       *)
(***************************************************************************)
VARIABLES
    pcb_data,                \* self.pcb_data, <<>> for None
    pcb_instances,           \* self.pcb_instances: data and faulty_modules of each
    current_instance_index,  \* self.current_instance_index, counted from 0
    file_number,             \* self.file_number
    add_module_button,       \* the state of the Add Module button
    canvas_bound,            \* draw_pcb has bound the click on the canvas
    exported,                \* the numbers of the SVG files saved, in order
    index_error,             \* pcb_instances was indexed out of range
    redistributed,           \* the last call of redistribute_data: the instances
                             \* before and after, <<>> before the first call
    added                    \* the number of modules added by the user

layoutVars == <<pcb_data, pcb_instances, current_instance_index, file_number,
                add_module_button, canvas_bound, exported, index_error,
                redistributed, added>>

vars == <<codecVars, pipeVars, layoutVars>>

\* PCBViewer.__init__
LayoutIdle ==
    /\ pcb_data = <<>>
    /\ pcb_instances = <<>>
    /\ current_instance_index = 0
    /\ file_number = 1
    /\ add_module_button = "normal"
    /\ canvas_bound = FALSE
    /\ exported = <<>>
    /\ index_error = FALSE
    /\ redistributed = <<>>
    /\ added = 0

\* no preprocessor runs during a codec session
PipeIdle ==
    /\ ppc = "idle"
    /\ args = <<>>
    /\ photo = <<>>
    /\ pre = <<>>
    /\ loc = <<>>
    /\ outcome = <<>>
    /\ reports = <<>>
    /\ files = [ todo |-> <<>>, done |-> 0 ]

Init ==
    /\ pc = "start"
    /\ serial \in SerialInputs
    /\ binary = <<>>
    /\ grid = <<>>
    /\ cells = <<>>
    /\ text = <<>>
    /\ flipped = {}
    /\ corrupt = 0
    /\ result = <<>>
    /\ image = <<>>
    /\ PipeIdle
    /\ LayoutIdle

\* main: binary = serial_to_binary(args.serial); the ValueError is not caught
SerialToBinary ==
    /\ pc = "start"
    /\ IF InvalidSerial(serial)
       THEN /\ pc' = "ValueError"
            /\ UNCHANGED binary
       ELSE /\ pc' = "binary"
            /\ binary' = serial_to_binary(serial)
    /\ UNCHANGED <<serial, grid, cells, text, flipped, corrupt, result, image>>
    /\ UNCHANGED pipeVars
    /\ UNCHANGED layoutVars

\* main: grid = binary_to_grid(binary)
BinaryToGrid ==
    /\ pc = "binary"
    /\ IF BinaryReadable(binary)
       THEN /\ pc' = "grid"
            /\ grid' = binary_to_grid(binary)
       ELSE /\ pc' = "ValueError"
            /\ UNCHANGED grid
    /\ UNCHANGED <<serial, binary, cells, text, flipped, corrupt, result, image>>
    /\ UNCHANGED pipeVars
    /\ UNCHANGED layoutVars

\* the picture of the grid is read: one character per cell, row by row
ReadGrid ==
    /\ pc = "grid"
    /\ pc' = "read"
    /\ cells' = GridText(grid)
    /\ text' = cells'
    /\ UNCHANGED <<serial, binary, grid, flipped, corrupt, result, image>>
    /\ UNCHANGED pipeVars
    /\ UNCHANGED layoutVars

\* the reader takes a dot for a blank or a blank for a dot
MisreadCell ==
    /\ pc = "read"
    /\ corrupt < MaxCorrupt
    /\ Len(cells) = GRID_LEN
    /\ \E p \in 1 .. GRID_LEN :
         /\ cells' = [cells EXCEPT ![p] = DigitChar(1 - IntOfChar(cells[p]))]
         /\ flipped' = (flipped \ {p}) \cup ({p} \ flipped)
    /\ text' = cells'
    /\ corrupt' = corrupt + 1
    /\ UNCHANGED <<pc, serial, binary, grid, result, image>>
    /\ UNCHANGED pipeVars
    /\ UNCHANGED layoutVars

\* the reader leaves a cell out
DropCell ==
    /\ pc = "read"
    /\ corrupt < MaxCorrupt
    /\ \E p \in 1 .. Len(cells) :
         cells' = SubSeq(cells, 1, p - 1) \o SubSeq(cells, p + 1, Len(cells))
    /\ text' = cells'
    /\ corrupt' = corrupt + 1
    /\ UNCHANGED <<pc, serial, binary, grid, flipped, result, image>>
    /\ UNCHANGED pipeVars
    /\ UNCHANGED layoutVars

\* the reader gives one cell too many
ExtraCell ==
    /\ pc = "read"
    /\ corrupt < MaxCorrupt
    /\ \E p \in 0 .. Len(cells), c \in BinaryChars :
         cells' = SubSeq(cells, 1, p) \o <<c>> \o SubSeq(cells, p + 1, Len(cells))
    /\ text' = cells'
    /\ corrupt' = corrupt + 1
    /\ UNCHANGED <<pc, serial, binary, grid, flipped, result, image>>
    /\ UNCHANGED pipeVars
    /\ UNCHANGED layoutVars

\* the answer holds a character that is neither '0' nor '1'
AddNoise ==
    /\ pc \in {"read", "noisy"}
    /\ corrupt < MaxCorrupt
    /\ \E p \in 0 .. Len(text), c \in NoiseChars :
         text' = SubSeq(text, 1, p) \o <<c>> \o SubSeq(text, p + 1, Len(text))
    /\ pc' = "noisy"
    /\ corrupt' = corrupt + 1
    /\ UNCHANGED <<serial, binary, grid, cells, flipped, result, image>>
    /\ UNCHANGED pipeVars
    /\ UNCHANGED layoutVars

\* test_decode_api: serial, details = grid_to_serial(grid_str)
Decode ==
    /\ pc \in {"read", "noisy"}
    /\ pc' = "decoded"
    /\ result' = grid_to_serial(text)
    /\ UNCHANGED <<serial, binary, grid, cells, text, flipped, corrupt, image>>
    /\ UNCHANGED pipeVars
    /\ UNCHANGED layoutVars

Next ==
    \/ SerialToBinary
    \/ BinaryToGrid
    \/ ReadGrid
    \/ MisreadCell
    \/ DropCell
    \/ ExtraCell
    \/ AddNoise
    \/ Decode

Spec == Init /\ [][Next]_vars

(***************************************************************************)
(* generate-test-microid.py: main renders the grid and saves the picture.  *)
(***************************************************************************)
\* dot_radius: int = 35
DOT_RADIUS == 35

\* the values of --size tried
CellSizes == {10, 20, 30, 36, 40, 50, 70, 100}

\* the centre of the dot of the cell at (row, col)
DotCentre(row, col, cell_size) ==
    LET padding == cell_size \div 2
    IN  << padding + col * cell_size + cell_size \div 2,
           padding + row * cell_size + cell_size \div 2 >>

\* render_grid(grid, cell_size, show_gridlines=...): the picture is given by
\* its size, the grid lines and the discs drawn
render_grid(g, cell_size, show_gridlines) ==
    LET padding == cell_size \div 2
        img_size == cell_size * 5 + padding * 2
    IN  [ img_size |-> img_size,
          cell_size |-> cell_size,
          lines |-> IF show_gridlines THEN { padding + i * cell_size : i \in 0 .. 5 } ELSE {},
          dots |-> { DotCentre(rc[1], rc[2], cell_size) :
                       rc \in { q \in (0 .. 4) \X (0 .. 4) : g[q[1]][q[2]] = 1 } },
          dot_radius |-> DOT_RADIUS ]

\* the pixel (x, y) of the picture has the colour of the dots
DotColoured(img, x, y) ==
    \E d \in img.dots :
        (x - d[1]) * (x - d[1]) + (y - d[2]) * (y - d[2]) <= img.dot_radius * img.dot_radius

\* the picture read cell by cell, row-major: '1' where the middle of the
\* cell has the colour of the dots
ReadPicture(img) ==
    [ k \in 1 .. GRID_LEN |->
        LET c == DotCentre((k - 1) \div 5, (k - 1) % 5, img.cell_size)
        IN  IF DotColoured(img, c[1], c[2]) THEN "1" ELSE "0" ]

\* main: img = render_grid(grid, cell_size=args.size, ...); img.save(args.output)
RenderGrid ==
    /\ pc = "grid"
    /\ \E size \in CellSizes, show_gridlines \in BOOLEAN :
         image' = render_grid(grid, size, show_gridlines)
    /\ pc' = "saved"
    /\ UNCHANGED <<serial, binary, grid, cells, text, flipped, corrupt, result>>
    /\ UNCHANGED pipeVars
    /\ UNCHANGED layoutVars

RenderNext ==
    \/ SerialToBinary
    \/ BinaryToGrid
    \/ RenderGrid

RenderSpec == Init /\ [][RenderNext]_vars

(***************************************************************************)
(* Properties of the codec.                                                *)
(***************************************************************************)
\* the reader made no error: the text decoded is the text of the grid
CleanRead == corrupt = 0

\* the 20 data positions of the 25-character text in reading order: every
\* position but the corners 1, 5, 21, 25 and the parity position 24
DataPositions == SelectSeq([ k \in 1 .. 25 |-> k ], LAMBDA k : k \notin {1, 5, 21, 24, 25})

\* the integer whose bits, most significant first, are the data cells of a text
RECURSIVE MsbFirst(_, _)
MsbFirst(t, n) ==
    IF n = 0 THEN 0
    ELSE 2 * MsbFirst(t, n - 1) + (IF t[DataPositions[n]] = "1" THEN 1 ELSE 0)

\* C1: decoding the 25-character text of the grid encoded from a serial in
\* [0, 1048575] returns that serial with anchors_valid and parity_valid true.
C1_RoundTrip ==
    (pc = "decoded" /\ CleanRead) =>
        /\ serial \in 0 .. 1048575
        /\ result.ok
        /\ result.serial = serial
        /\ result.anchors_valid
        /\ result.parity_valid

C1_Witness ==
    /\ pc = "decoded"
    /\ CleanRead
    /\ serial = 1048575
    /\ result.ok
    /\ result.serial = 1048575

\* C2: encoding fails exactly for the serials outside [0, 1048575], and a
\* failed encoding has produced no grid.
C2_InvalidSerial ==
    /\ pc = "ValueError" => (serial \notin 0 .. 1048575 /\ grid = <<>>)
    /\ (serial \notin 0 .. 1048575 /\ pc # "start") => pc = "ValueError"
    /\ (serial \in 0 .. 1048575 /\ pc # "start") => binary # <<>>
    /\ (serial \in 0 .. 1048575 /\ pc \notin {"start", "binary"}) => grid # <<>>

C2_Witness ==
    /\ pc = "ValueError"
    /\ serial = 1048576
    /\ grid = <<>>

\* C3: decode succeeds exactly when the reader's text holds 25 binary
\* characters, whatever other characters stand between them, and then returns
\* what the 25 binary characters alone decode to; otherwise it fails with
\* the invalid-length error and no serial.
C3_NoiseTolerance ==
    pc = "decoded" =>
        /\ result.ok <=> Len(cells) = 25
        /\ result.ok => result = grid_to_serial(cells)
        /\ ~result.ok =>
             /\ result.error = "Invalid grid length"
             /\ result.length = Len(cells)
             /\ "serial" \notin DOMAIN result

C3_Witness ==
    /\ pc = "decoded"
    /\ Len(text) > 25
    /\ \E i \in DOMAIN text : text[i] = "x"
    /\ Len(cells) = 25
    /\ result.ok
    /\ result.serial = serial

\* C4: for every 25-cell text decode returns the MSB-first integer of the 20
\* data cells, in [0, 1048575], with both flags, also when a flag is false.
C4_BestEffort ==
    (pc = "decoded" /\ Len(cells) = 25) =>
        /\ result.ok
        /\ result.serial = MsbFirst(cells, 20)
        /\ result.serial \in 0 .. 1048575
        /\ result.anchors_valid \in BOOLEAN
        /\ result.parity_valid \in BOOLEAN

C4_Witness ==
    /\ pc = "decoded"
    /\ result.ok
    /\ ~result.anchors_valid
    /\ ~result.parity_valid
    /\ result.serial = MsbFirst(cells, 20)
    /\ result.serial # serial

\* C5: one misread data cell in the text of an encoded grid makes
\* parity_valid false.
C5_ParitySensitivity ==
    (/\ pc = "decoded"
     /\ corrupt = 1
     /\ \E j \in 1 .. 20 : flipped = {DataPositions[j]})
    => (result.ok /\ ~result.parity_valid)

C5_Witness ==
    /\ pc = "decoded"
    /\ corrupt = 1
    /\ flipped = {DataPositions[20]}
    /\ ~result.parity_valid
    /\ result.anchors_valid

\* C6: one cleared corner cell in the text of an encoded grid makes
\* anchors_valid false and leaves the serial and parity_valid as they are for
\* the unchanged grid.
C6_AnchorSensitivity ==
    (/\ pc = "decoded"
     /\ corrupt = 1
     /\ \E k \in {1, 5, 21, 25} : flipped = {k})
    => /\ result.ok
       /\ ~result.anchors_valid
       /\ result.serial = grid_to_serial(GridText(grid)).serial
       /\ result.parity_valid = grid_to_serial(GridText(grid)).parity_valid
       /\ result.serial = serial
       /\ result.parity_valid

C6_Witness ==
    /\ pc = "decoded"
    /\ corrupt = 1
    /\ flipped = {21}
    /\ ~result.anchors_valid
    /\ result.parity_valid
    /\ result.serial = serial

\* the text of the grid of serial 5
Encode5Text ==
    << "1", "0", "0", "0", "1",
       "0", "0", "0", "0", "0",
       "0", "0", "0", "0", "0",
       "0", "0", "0", "0", "1",
       "1", "0", "1", "0", "1" >>

\* the cell of data bit b when the bits 19..0 fill the cells that are neither
\* corner nor parity row by row
LayoutCell(b) ==
    LET k == DataPositions[20 - b] IN <<(k - 1) \div 5, (k - 1) % 5>>

\* C7: encode and decode use the same table: anchors in the 4 corners, data
\* bits 19..0 row-major in the other cells, parity at grid[4][3]; the 25 cells
\* are distinct and cover the grid; encode(5) is 1000100000000000000110101,
\* which decodes to 5 with both flags true.
C7_BitLayout ==
    /\ EncodeAnchors = { <<0, 0>>, <<0, 4>>, <<4, 0>>, <<4, 4>> }
    /\ EncodeParityCell = <<4, 3>>
    /\ DecodeParityCell = EncodeParityCell
    /\ \A b \in 0 .. 19 :
         /\ EncodeCells[20 - b] = LayoutCell(b)
         /\ DecodeCell(b) = EncodeCells[20 - b]
    /\ EncodeAnchors \cup {EncodeParityCell} \cup { EncodeCells[i] : i \in 1 .. 20 }
         = (0 .. 4) \X (0 .. 4)
    /\ Cardinality({ EncodeCells[i] : i \in 1 .. 20 }) = 20
    /\ (serial = 5 /\ pc = "read" /\ CleanRead) => text = Encode5Text
    /\ (serial = 5 /\ pc = "decoded" /\ CleanRead) =>
         /\ result.ok
         /\ result.serial = 5
         /\ result.anchors_valid
         /\ result.parity_valid

C7_Witness ==
    /\ serial = 5
    /\ pc = "decoded"
    /\ text = Encode5Text
    /\ result.ok
    /\ result.serial = 5
    /\ result.anchors_valid
    /\ result.parity_valid

(***************************************************************************)
(* microid-preprocessor.py                                                 *)
(*                                                                         *)
(* Lengths in mm are integers in units of 1/MM_UNITS mm.  Pixel positions  *)
(* that the program holds as floats are exact rationals here, kept as      *)
(* records [a, n, d] standing for a/2 + n/d; int() truncates toward zero.  *)
(* Detected outlines are axis-aligned boxes with integer corners, reported *)
(* by minAreaRect with an angle that is a multiple of 90 degrees.          *)
(***************************************************************************)
\* bounds of the pictures tried
MaxSide == 12
AspectStep == 3
\* how many files main is given at most
MaxFiles == 2

MM_UNITS == 10000

Min(a, b) == IF a <= b THEN a ELSE b
Max(a, b) == IF a >= b THEN a ELSE b
Abs(a) == IF a >= 0 THEN a ELSE -a

\* ceiling of n / d for d > 0
CeilDiv(n, d) == -((-n) \div d)

\* int(a/2 + n/d) for d > 0: the integer part, truncated toward zero
IntHalfPlus(a, n, d) ==
    LET q == n \div d
        r == n % d
        fl == (a + 2 * q) + ((2 * r) \div d)
        ce == (a + 2 * q) + CeilDiv(2 * r, d)
    IN  IF fl >= 0 THEN fl \div 2 ELSE CeilDiv(ce, 2)

\* int(n / d) for n >= 0 and d > 0
IntDiv(n, d) == n \div d

\* the number of elements of a[lo:hi] for an axis of length len: a negative
\* index counts from the end, and both ends are clipped to the axis
SliceLen(lo, hi, len) ==
    LET norm(i) == IF i < 0 THEN Max(i + len, 0) ELSE Min(i, len)
    IN  Max(norm(hi) - norm(lo), 0)

\* class ModuleSpec, MODULE_SPECS['SZ-04']
SZ04 ==
    [ name |-> "SZ-04",
      width_mm |-> 20 * MM_UNITS,
      height_mm |-> 20 * MM_UNITS,
      microid_x_mm |-> 41281,
      microid_y_mm |-> 62953,
      microid_size_mm |-> 18250,
      microid_padding_mm |-> 3000 ]

MODULE_SPECS == [ name \in {"SZ-04"} |-> SZ04 ]

\* a lookup that falls back to the first specification for an absent name
ModuleSpecGetDefaulting(module_type) ==
    IF module_type \in DOMAIN MODULE_SPECS THEN MODULE_SPECS[module_type] ELSE SZ04

\* MODULE_SPECS.get(module_type): <<>> stands for None
ModuleSpecGet(module_type) ==
    IF module_type \in DOMAIN MODULE_SPECS THEN MODULE_SPECS[module_type] ELSE <<>>

\* target = 500 of _enhance and of the raw branch
TARGET == 500

\* cos and sin of an angle that is a multiple of 90 degrees
Cos90(angle) ==
    CASE angle % 360 = 0 -> 1
      [] angle % 360 = 180 -> -1
      [] OTHER -> 0

Sin90(angle) ==
    CASE angle % 360 = 90 -> 1
      [] angle % 360 = 270 -> -1
      [] OTHER -> 0

(***************************************************************************)
(* The photos and command lines tried.                                     *)
(***************************************************************************)
\* a contour found in the picture: its area and its minimal-area rectangle,
\* the box x0..x1, y0..y1 reported as (w, h) = (x1 - x0, y1 - y0) when
\* wfirst, as (h, w) otherwise, with the angle minAreaRect gives
Contour(area, x0, y0, x1, y1, wfirst, angle) ==
    [ area |-> area, x0 |-> x0, y0 |-> y0, x1 |-> x1, y1 |-> y1,
      wfirst |-> wfirst, angle |-> angle ]

\* a square outline of the given side with its top-left corner at (x0, y0)
SquareAt(x0, y0, side, angle) ==
    Contour(side * side, x0, y0, x0 + side, y0 + side, angle = 0, angle)

\* the shorter side from which a picture is tried with two rival outlines
MinRivalSide == 10

\* the contour sets tried for a picture of w x h pixels
ContourSets(w, h) ==
    LET m == Min(w, h)
        whole == Contour(w * h, 0, 0, w, h, TRUE, 0)
        speck == Contour(1, 0, 0, 1, 1, TRUE, 0)
        inner == IF m >= 3 THEN { SquareAt(1, 1, m - 2, a) : a \in {0, 90, -90} }
                 ELSE {}
        low == IF m >= 3 THEN { SquareAt(w - m + 1, h - m + 2, m - 2, -90) }
               ELSE {}
        \* two outlines that both qualify: a full rectangle of (m - 3) x (m - 2)
        \* and a rounded outline in a square box of side m - 2 with less area
        \* and a higher score
        oblong == Contour((m - 3) * (m - 2), 1, 1, m - 2, m - 1, TRUE, 0)
        rounded == Contour((m - 3) * (m - 3) + 4, 1, 1, m - 1, m - 1, TRUE, 0)
        rivals == IF m >= MinRivalSide THEN { <<oblong, rounded>>, <<rounded, oblong>> }
                  ELSE {}
    IN  { <<>>, <<whole>>, <<speck>> }
        \cup rivals
        \cup { <<speck, c>> : c \in inner \cup low }
        \cup { <<c, whole>> : c \in inner }

PhotoSizes ==
    { <<k, k>> : k \in 1 .. MaxSide }
    \cup { <<k, k + AspectStep>> : k \in 1 .. MaxSide }
    \cup { <<k + AspectStep, k>> : k \in 1 .. MaxSide }

\* the serials marked on the modules photographed
PhotoSerials == {5}

\* a photo of 2000 x 2000 pixels that the module fills exactly: the only
\* outline to find is the border of the picture
FrameFilled ==
    { [ readable |-> TRUE, w |-> 2000, h |-> 2000, contours |-> cs, serial |-> n ] :
        cs \in { <<>>, <<Contour(2000 * 2000, 0, 0, 2000, 2000, TRUE, 0)>> },
        n \in PhotoSerials }

Photos ==
    { [ readable |-> FALSE, w |-> 0, h |-> 0, contours |-> <<>>, serial |-> n ] :
        n \in PhotoSerials }
    \cup FrameFilled
    \cup UNION { { [ readable |-> TRUE, w |-> sz[1], h |-> sz[2], contours |-> cs,
                      serial |-> n ] :
                      cs \in ContourSets(sz[1], sz[2]), n \in PhotoSerials } :
                  sz \in PhotoSizes }

\* the photos of a directory given to main
BatchPhotos == { p \in Photos : ~p.readable \/ (p.w = MaxSide /\ p.h = MaxSide) }

RECURSIVE SeqsUpTo(_, _)
SeqsUpTo(S, n) ==
    IF n = 0 THEN { <<>> }
    ELSE LET shorter == SeqsUpTo(S, n - 1)
         IN  shorter \cup { Append(q, x) : q \in { t \in shorter : Len(t) = n - 1 }, x \in S }

CommandLines ==
    [ module : {"SZ-04", "SZ-05"}, debug : BOOLEAN, tight : BOOLEAN, raw : BOOLEAN ]

(***************************************************************************)
(* ModuleLocator: _detect_module_outline                                   *)
(***************************************************************************)
\* box_w, box_h = rect[1]
BoxW(c) == IF c.wfirst THEN c.x1 - c.x0 ELSE c.y1 - c.y0
BoxH(c) == IF c.wfirst THEN c.y1 - c.y0 ELSE c.x1 - c.x0

\* an area filter with the lower threshold at 5% of the image
AreaRejectedBelowFive(area, img_area) == 20 * area < img_area \/ 20 * area > 19 * img_area

\* area < img_area * 0.10 or area > img_area * 0.95
AreaRejected(area, img_area) == 10 * area < img_area \/ 20 * area > 19 * img_area

\* aspect > 0.8 with aspect = min(box_w, box_h) / max(box_w, box_h)
SquareEnough(c) == 5 * Min(BoxW(c), BoxH(c)) > 4 * Max(BoxW(c), BoxH(c))

\* a comparison of the areas alone
ScoreBeatsByArea(c, best) ==
    IF best = <<>> THEN c.area > 0 ELSE c.area > best.area

\* score > best_score with score = area * aspect; best is <<>> while
\* best_score is still 0
ScoreBeats(c, best) ==
    IF best = <<>> THEN c.area * Min(BoxW(c), BoxH(c)) > 0
    ELSE c.area * Min(BoxW(c), BoxH(c)) * Max(BoxW(best), BoxH(best))
           > best.area * Min(BoxW(best), BoxH(best)) * Max(BoxW(c), BoxH(c))

\* the loop over the contours from index i on; best is best_contour so far
RECURSIVE BestContour(_, _, _, _)
BestContour(contours, i, best, img_area) ==
    IF i > Len(contours) THEN best
    ELSE LET c == contours[i]
         IN  IF AreaRejected(c.area, img_area) THEN BestContour(contours, i + 1, best, img_area)
             ELSE IF BoxW(c) = 0 \/ BoxH(c) = 0 THEN BestContour(contours, i + 1, best, img_area)
             ELSE IF SquareEnough(c) /\ ScoreBeats(c, best)
                  THEN BestContour(contours, i + 1, c, img_area)
                  ELSE BestContour(contours, i + 1, best, img_area)

\* box = np.int32(cv2.boxPoints(rect)): bottom-left, top-left, top-right,
\* bottom-right of the box
BoxPoints(c) == << <<c.x0, c.y1>>, <<c.x0, c.y0>>, <<c.x1, c.y0>>, <<c.x1, c.y1>> >>

\* angle = rect[2]; if rect[1][0] < rect[1][1]: angle = angle - 90
NormalizedAngle(c) == IF BoxW(c) < BoxH(c) THEN c.angle - 90 ELSE c.angle

\* (corners, rotation_angle), or found = FALSE for (None, None)
_detect_module_outline(img) ==
    LET best == IF img.contours = <<>> THEN <<>>
                ELSE BestContour(img.contours, 1, <<>>, img.w * img.h)
    IN  IF best = <<>> THEN [ found |-> FALSE ]
        ELSE [ found |-> TRUE, corners |-> BoxPoints(best), angle |-> NormalizedAngle(best) ]

\* the debug pictures _detect_module_outline stores
DetectDebugImages(debug, found) ==
    IF ~debug THEN {}
    ELSE IF found THEN {"02_edges", "03_module_detected"}
    ELSE {"02_edges"}

(***************************************************************************)
(* CropEnhancer: _enhance, and the raw branch                              *)
(***************************************************************************)
\* the size after resizing the longer side to TARGET
ResizedW(w, h) == Max(1, IntDiv(w * TARGET, Max(h, w)))
ResizedH(w, h) == Max(1, IntDiv(h * TARGET, Max(h, w)))

_enhance(crop) ==
    IF crop.w = 0 \/ crop.h = 0 THEN [ crop EXCEPT !.steps = <<>> ]
    ELSE [ crop EXCEPT !.w = ResizedW(crop.w, crop.h),
                       !.h = ResizedH(crop.w, crop.h),
                       !.steps = <<"resize", "gray", "clahe", "sharpen", "boost">> ]

\* cv2.resize(crop, (nw, nh), interpolation=cv2.INTER_CUBIC) only
ResizeOnly(crop) ==
    [ crop EXCEPT !.w = ResizedW(crop.w, crop.h),
                  !.h = ResizedH(crop.w, crop.h),
                  !.steps = <<"resize">> ]

\* img[y1:y2, x1:x2] of a picture of rw x rh pixels; hyp is the rotation
\* hypothesis the crop stands for, frame the rotation of the picture it is
\* cut from (neither is stored by the program)
Slice(x1, y1, x2, y2, rw, rh, hyp, frame) ==
    [ hyp |-> hyp, frame |-> frame,
      x1 |-> x1, y1 |-> y1, x2 |-> x2, y2 |-> y2,
      w |-> SliceLen(x1, x2, rw), h |-> SliceLen(y1, y2, rh),
      steps |-> <<>> ]

\* crop.size == 0
EmptyCrop(crop) == crop.w * crop.h = 0

(***************************************************************************)
(* RegionExtractor: _extract_assuming_full_frame                           *)
(***************************************************************************)
\* twice the offset in mm of the Micro-ID center from the module center
OffsetX2(spec) == 2 * spec.microid_x_mm + spec.microid_size_mm - spec.width_mm
OffsetY2(spec) == 2 * spec.microid_y_mm + spec.microid_size_mm - spec.height_mm

\* the crop size without the factors 1.8 and 2.0 for the margin
FrameCropSizeNoMargin(spec, rot_scale, tight_crop) ==
    IF tight_crop
    THEN IntDiv((spec.microid_size_mm - 2 * spec.microid_padding_mm) * rot_scale.num,
                rot_scale.den)
    ELSE IntDiv(spec.microid_size_mm * rot_scale.num, rot_scale.den)

\* a scale that takes the shorter side of the picture for the module
FrameScaleFullSide(spec, w, h) ==
    [ num |-> Min(w, h), den |-> Max(spec.width_mm, spec.height_mm) ]

\* a scale in px/mm is the record [num, den] standing for MM_UNITS * num / den
FrameScale(spec, w, h) ==
    [ num |-> 9 * Min(w, h), den |-> 10 * Max(spec.width_mm, spec.height_mm) ]

\* crop_size of the frame fallback
FrameCropSize(spec, rot_scale, tight_crop) ==
    IF tight_crop
    THEN IntDiv(9 * (spec.microid_size_mm - 2 * spec.microid_padding_mm) * rot_scale.num,
                5 * rot_scale.den)
    ELSE IntDiv(2 * spec.microid_size_mm * rot_scale.num, rot_scale.den)

\* a region placed in the picture as given, whatever the rotation tried
FrameRegionUnrotated(spec, w, h, rotation_deg, tight_crop) ==
    LET rot_scale == FrameScale(spec, w, h)
        nx == OffsetX2(spec) * rot_scale.num
        ny == -OffsetY2(spec) * rot_scale.num
        d == 2 * rot_scale.den
        crop_size == FrameCropSize(spec, rot_scale, tight_crop)
        x1 == Max(0, IntHalfPlus(w - crop_size, nx, d))
        y1 == Max(0, IntHalfPlus(h - crop_size, ny, d))
        x2 == Min(w, IntHalfPlus(w + crop_size, nx, d))
        y2 == Min(h, IntHalfPlus(h + crop_size, ny, d))
    IN  Slice(x1, y1, x2, y2, w, h, rotation_deg, rotation_deg)

\* the region cut from the picture rotated by rotation_deg
FrameRegion(spec, w, h, rotation_deg, tight_crop) ==
    LET rw == IF rotation_deg \in {0, 180} THEN w ELSE h
        rh == IF rotation_deg \in {0, 180} THEN h ELSE w
        rot_scale == FrameScale(spec, rw, rh)
        nx == OffsetX2(spec) * rot_scale.num
        ny == -OffsetY2(spec) * rot_scale.num
        d == 2 * rot_scale.den
        crop_size == FrameCropSize(spec, rot_scale, tight_crop)
        x1 == Max(0, IntHalfPlus(rw - crop_size, nx, d))
        y1 == Max(0, IntHalfPlus(rh - crop_size, ny, d))
        x2 == Min(rw, IntHalfPlus(rw + crop_size, nx, d))
        y2 == Min(rh, IntHalfPlus(rh + crop_size, ny, d))
    IN  Slice(x1, y1, x2, y2, rw, rh, rotation_deg, rotation_deg)

Rotations == <<0, 90, 180, 270>>

\* the loop over the 4 orientations from index i on; st holds the local
\* variables h, w, scale and crops, which the raw branch assigns to
RECURSIVE FrameLoop(_, _, _, _, _)
FrameLoop(self, img_w, img_h, i, st) ==
    IF i > Len(Rotations) THEN st
    ELSE LET crop == FrameRegion(self.module_spec, img_w, img_h, Rotations[i], self.tight_crop)
         IN  IF EmptyCrop(crop) THEN FrameLoop(self, img_w, img_h, i + 1, st)
             ELSE IF self.raw_color
                  THEN FrameLoop(self, img_w, img_h, i + 1,
                                 [ h |-> crop.h, w |-> crop.w,
                                   scale |-> [ num |-> TARGET,
                                               den |-> Max(crop.h, crop.w) * MM_UNITS ],
                                   crops |-> Append(st.crops, ResizeOnly(crop)) ])
                  ELSE FrameLoop(self, img_w, img_h, i + 1,
                                 [ st EXCEPT !.crops = Append(st.crops, _enhance(crop)) ])

\* a fallback that takes the padding off spec.microid_size_mm itself for a
\* tight crop
ExtractFullFrameShrinkingSpec(self, img) ==
    LET st == FrameLoop(self, img.w, img.h, 1,
                        [ h |-> img.h, w |-> img.w,
                          scale |-> FrameScale(self.module_spec, img.w, img.h),
                          crops |-> <<>> ])
    IN  [ crops |-> st.crops, scale |-> st.scale, rotation |-> 0,
          spec |-> IF self.tight_crop
                   THEN [ self.module_spec EXCEPT
                            !.microid_size_mm = @ - 2 * self.module_spec.microid_padding_mm ]
                   ELSE self.module_spec ]

\* returns crops, scale, 0.0; spec is the record self.module_spec refers to
\* as the call leaves it
_extract_assuming_full_frame(self, img) ==
    LET st == FrameLoop(self, img.w, img.h, 1,
                        [ h |-> img.h, w |-> img.w,
                          scale |-> FrameScale(self.module_spec, img.w, img.h),
                          crops |-> <<>> ])
    IN  [ crops |-> st.crops, scale |-> st.scale, rotation |-> 0,
          spec |-> self.module_spec ]

(***************************************************************************)
(* RegionExtractor: _calculate_transform, _sort_corners,                   *)
(* _extract_microid_region, _extract_from_center                           *)
(***************************************************************************)
MinOf(S) == CHOOSE x \in S : \A y \in S : x <= y
MaxOf(S) == CHOOSE x \in S : \A y \in S : x >= y

\* rect = cv2.minAreaRect(corners) of the 4 corners of an axis-aligned box
CornersX(corners) == { corners[i][1] : i \in DOMAIN corners }
CornersY(corners) == { corners[i][2] : i \in DOMAIN corners }
CornersW(corners) == MaxOf(CornersX(corners)) - MinOf(CornersX(corners))
CornersH(corners) == MaxOf(CornersY(corners)) - MinOf(CornersY(corners))

\* scale_px_per_mm = max(box_w, box_h) / max(width_mm, height_mm)
_calculate_transform(self, corners) ==
    [ num |-> Max(CornersW(corners), CornersH(corners)),
      den |-> Max(self.module_spec.width_mm, self.module_spec.height_mm) ]

\* the loop of _sort_corners from corner i on: each corner is stored in the
\* slot of its quadrant about the centroid (sx / 4, sy / 4)
RECURSIVE SortLoop(_, _, _, _, _)
SortLoop(corners, i, sx, sy, res) ==
    IF i > Len(corners) THEN res
    ELSE LET corner == corners[i]
             n == Len(corners)
             dxNeg == n * corner[1] < sx
             dxPos == n * corner[1] > sx
             dyNeg == n * corner[2] < sy
             dyPos == n * corner[2] > sy
             slot == IF dxNeg /\ dyPos THEN 1
                     ELSE IF dxNeg /\ dyNeg THEN 2
                     ELSE IF dxPos /\ dyNeg THEN 3
                     ELSE 4
         IN  SortLoop(corners, i + 1, sx, sy, [res EXCEPT ![slot] = corner])

\* [BL, TL, TR, BR]; slots no corner falls in stay (0, 0)
_sort_corners(corners) ==
    SortLoop(corners, 1,
             SumSeq([ i \in DOMAIN corners |-> corners[i][1] ]),
             SumSeq([ i \in DOMAIN corners |-> corners[i][2] ]),
             [ i \in DOMAIN corners |-> <<0, 0>> ])

\* the three turns appended counter-clockwise first
FourOrientationsCounterClockwiseFirst(enhanced) ==
    [ k \in 1 .. 4 |->
        IF k \in {2, 4}
        THEN [ enhanced EXCEPT !.hyp = Rotations[6 - k], !.w = enhanced.h, !.h = enhanced.w ]
        ELSE [ enhanced EXCEPT !.hyp = Rotations[k] ] ]

\* crops = [enhanced] + the three cv2.rotate turns of it
FourOrientations(enhanced) ==
    [ k \in 1 .. 4 |->
        IF k \in {2, 4}
        THEN [ enhanced EXCEPT !.hyp = Rotations[k], !.w = enhanced.h, !.h = enhanced.w ]
        ELSE [ enhanced EXCEPT !.hyp = Rotations[k] ] ]

\* a crop size with a padding of the whole footprint on each side
ModuleCropSizeFullPadding(spec, scale) == IntDiv(3 * spec.microid_size_mm * scale.num, scale.den)

\* crop_size = int(microid_size_mm * scale * 1.6)
ModuleCropSize(spec, scale) == IntDiv(8 * spec.microid_size_mm * scale.num, 5 * scale.den)

\* the region _extract_from_center cuts around the module center
CenterRegion(self, img, corners, scale, rotation) ==
    LET spec == self.module_spec
        ax == MinOf(CornersX(corners)) + MaxOf(CornersX(corners))
        ay == MinOf(CornersY(corners)) + MaxOf(CornersY(corners))
        cos_a == Cos90(rotation)
        sin_a == Sin90(rotation)
        nx == (OffsetX2(spec) * cos_a - OffsetY2(spec) * sin_a) * scale.num
        ny == -(OffsetX2(spec) * sin_a + OffsetY2(spec) * cos_a) * scale.num
        d == 2 * scale.den
        crop_size == ModuleCropSize(spec, scale)
        x1 == Max(0, IntHalfPlus(ax - crop_size, nx, d))
        y1 == Max(0, IntHalfPlus(ay - crop_size, ny, d))
        x2 == Min(img.w, IntHalfPlus(ax + crop_size, nx, d))
        y2 == Min(img.h, IntHalfPlus(ay + crop_size, ny, d))
    IN  Slice(x1, y1, x2, y2, img.w, img.h, 0, 0)

_extract_from_center(self, img, corners, scale, rotation) ==
    LET crop == CenterRegion(self, img, corners, scale, rotation)
    IN  [ crops |-> IF EmptyCrop(crop) THEN <<>> ELSE FourOrientations(_enhance(crop)),
          debug_images |-> IF self.debug THEN {"04b_fallback_region"} ELSE {},
          spec |-> self.module_spec ]

\* (microid_center_x, microid_center_y) of _extract_microid_region: the point
\* (bottom_left[0] + nx / d, bottom_left[1] + ny / d)
MicroidCentre(spec, bottom_left, scale, rotation) ==
    LET cos_a == Cos90(rotation)
        sin_a == Sin90(rotation)
    IN  [ x |-> bottom_left[1],
          y |-> bottom_left[2],
          nx |-> (2 * (spec.microid_x_mm * cos_a - spec.microid_y_mm * sin_a)
                    + spec.microid_size_mm) * scale.num,
          ny |-> -(2 * (spec.microid_x_mm * sin_a + spec.microid_y_mm * cos_a)
                     + spec.microid_size_mm) * scale.num,
          d |-> 2 * scale.den ]

\* the region _extract_microid_region cuts, placed from the bottom-left corner
CornerRegion(self, img, corners, scale, rotation) ==
    LET spec == self.module_spec
        c == MicroidCentre(spec, _sort_corners(corners)[1], scale, rotation)
        crop_size == ModuleCropSize(spec, scale)
        x1 == Max(0, IntHalfPlus(2 * c.x - crop_size, c.nx, c.d))
        y1 == Max(0, IntHalfPlus(2 * c.y - crop_size, c.ny, c.d))
        x2 == Min(img.w, IntHalfPlus(2 * c.x + crop_size, c.nx, c.d))
        y2 == Min(img.h, IntHalfPlus(2 * c.y + crop_size, c.ny, c.d))
    IN  Slice(x1, y1, x2, y2, img.w, img.h, 0, 0)

\* abs(rotation) > 5: the crop is turned back by _rotate_crop, keeping its size
Derotated(crop, rotation) ==
    IF Abs(rotation) > 5 THEN [ crop EXCEPT !.frame = -rotation ] ELSE crop

\* an extraction that gives up when the corner-based region is empty
ExtractWithoutCenterFallback(self, img, corners, scale, rotation) ==
    LET crop == CornerRegion(self, img, corners, scale, rotation)
        dbg == IF self.debug THEN {"04_extraction_region"} ELSE {}
    IN  IF EmptyCrop(crop)
        THEN [ crops |-> <<>>, debug_images |-> dbg, spec |-> self.module_spec ]
        ELSE [ crops |-> FourOrientations(_enhance(Derotated(crop, rotation))),
               debug_images |-> dbg, spec |-> self.module_spec ]

_extract_microid_region(self, img, corners, scale, rotation) ==
    LET crop == CornerRegion(self, img, corners, scale, rotation)
        dbg == IF self.debug THEN {"04_extraction_region"} ELSE {}
    IN  IF EmptyCrop(crop)
        THEN LET r == _extract_from_center(self, img, corners, scale, rotation)
             IN  [ crops |-> r.crops, debug_images |-> dbg \cup r.debug_images,
                   spec |-> r.spec ]
        ELSE [ crops |-> FourOrientations(_enhance(Derotated(crop, rotation))),
               debug_images |-> dbg, spec |-> self.module_spec ]

(***************************************************************************)
(* Reading and decoding the saved crops (decode-visual-grid.py main)       *)
(***************************************************************************)
\* cv2.ROTATE_90_CLOCKWISE applied k times to a 5x5 grid
RECURSIVE RotateGrid(_, _)
RotateGrid(g, k) ==
    IF k = 0 THEN g
    ELSE LET t == RotateGrid(g, k - 1)
         IN  [ row \in 0 .. 4 |-> [ col \in 0 .. 4 |-> t[4 - col][row] ] ]

\* what the reader may answer for a crop of a module marked with a serial:
\* the grid as the crop shows it, the same with the parity cell or a corner
\* misread, or an answer one character short
ReaderAnswers(n, crop) ==
    LET seen == GridText(RotateGrid(binary_to_grid(serial_to_binary(n)), crop.hyp \div 90))
        flip(t, k) == [ t EXCEPT ![k] = DigitChar(1 - IntOfChar(t[k])) ]
    IN  { seen, flip(seen, 24), SubSeq(seen, 1, GRID_LEN - 1) }

\* a main that prints a decoded serial only when both flags are true
PrintsDecodedValidOnly(res) == res.ok /\ res.anchors_valid /\ res.parity_valid

\* main: if result['serial'] is not None the serial and both flags are
\* printed as the decoded serial, otherwise "Decode failed"
PrintsDecoded(res) == res.ok

(***************************************************************************)
(* main and process of microid-preprocessor.py                             *)
(***************************************************************************)
PipeInit ==
    /\ pc = "idle"
    /\ serial = 0
    /\ binary = <<>>
    /\ grid = <<>>
    /\ cells = <<>>
    /\ text = <<>>
    /\ flipped = {}
    /\ corrupt = 0
    /\ result = <<>>
    /\ image = <<>>
    /\ ppc = "start"
    /\ args \in CommandLines
    /\ photo \in Photos
    /\ pre = <<>>
    /\ loc = <<>>
    /\ outcome = <<>>
    /\ reports = <<>>
    /\ files = [ todo |-> <<>>, done |-> 0 ]
    /\ LayoutIdle

\* the object __init__ leaves when it does not raise
MicroIDPreprocessor(module_type, debug, tight_crop, raw_color) ==
    [ module_spec |-> ModuleSpecGet(module_type),
      debug |-> debug,
      tight_crop |-> tight_crop,
      raw_color |-> raw_color,
      debug_images |-> {} ]

\* the dictionary process(image_path) returns when called on the object self
process(self, img) ==
    IF ~img.readable
    THEN [ success |-> FALSE, error |-> "Could not load image" ]
    ELSE LET d == _detect_module_outline(img)
             stored == self.debug_images \cup {"01_original"}
                         \cup DetectDebugImages(self.debug, d.found)
             r == IF d.found
                  THEN LET scale == _calculate_transform(self, d.corners)
                           e == _extract_microid_region(self, img, d.corners, scale, d.angle)
                       IN  [ crops |-> e.crops, scale |-> scale, rotation |-> d.angle,
                             method |-> "coordinate_based", debug_images |-> e.debug_images ]
                  ELSE LET e == _extract_assuming_full_frame(self, img)
                       IN  [ crops |-> e.crops, scale |-> e.scale, rotation |-> e.rotation,
                             method |-> "frame_fallback",
                             debug_images |-> IF self.debug THEN {"04_all_orientations"}
                                              ELSE {} ]
         IN  IF r.crops = <<>>
             THEN [ success |-> FALSE, error |-> "Could not extract Micro-ID region" ]
             ELSE [ success |-> TRUE,
                    cropped_images |-> r.crops,
                    detection_method |-> r.method,
                    scale_px_per_mm |-> r.scale,
                    rotation_angle |-> r.rotation,
                    debug_images |-> IF self.debug THEN stored \cup r.debug_images ELSE {} ]

\* main: MicroIDPreprocessor(module_type, debug, tight_crop, raw_color); the
\* ValueError of an unknown module type ends main with status 1
Construct ==
    /\ ppc = "start"
    /\ IF ModuleSpecGet(args.module) # <<>>
       THEN /\ pre' = MicroIDPreprocessor(args.module, args.debug, args.tight, args.raw)
            /\ ppc' = "process"
       ELSE /\ pre' = pre
            /\ ppc' = "exit1"
    /\ UNCHANGED <<args, photo, files, loc, outcome, reports>>
    /\ UNCHANGED codecVars
    /\ UNCHANGED layoutVars

\* process: img = cv2.imread(image_path)
ReadImage ==
    /\ ppc = "process"
    /\ IF ~photo.readable
       THEN /\ outcome' = [ success |-> FALSE, error |-> "Could not load image" ]
            /\ ppc' = "done"
            /\ pre' = pre
       ELSE /\ pre' = [ pre EXCEPT !.debug_images = @ \cup {"01_original"} ]
            /\ ppc' = "detect"
            /\ outcome' = outcome
    /\ UNCHANGED <<args, photo, files, loc, reports>>
    /\ UNCHANGED codecVars
    /\ UNCHANGED layoutVars

\* process, step 1: module_corners, rotation_angle = self._detect_module_outline(img)
DetectModuleOutline ==
    /\ ppc = "detect"
    /\ LET d == _detect_module_outline(photo)
       IN  /\ loc' = d
           /\ pre' = [ pre EXCEPT !.debug_images = @ \cup DetectDebugImages(pre.debug, d.found) ]
           /\ ppc' = IF d.found THEN "located" ELSE "not_found"
    /\ UNCHANGED <<args, photo, files, outcome, reports>>
    /\ UNCHANGED codecVars
    /\ UNCHANGED layoutVars

\* process, steps 2 and 3 when a module was detected
ExtractCoordinateBased ==
    /\ ppc = "located"
    /\ LET scale == _calculate_transform(pre, loc.corners)
           r == _extract_microid_region(pre, photo, loc.corners, scale, loc.angle)
       IN  /\ loc' = [ found |-> TRUE, corners |-> loc.corners,
                       crops |-> r.crops,
                       scale_px_per_mm |-> scale,
                       rotation_angle |-> loc.angle,
                       detection_method |-> "coordinate_based" ]
           /\ pre' = [ pre EXCEPT !.debug_images = @ \cup r.debug_images,
                                  !.module_spec = r.spec ]
    /\ ppc' = "extracted"
    /\ UNCHANGED <<args, photo, files, outcome, reports>>
    /\ UNCHANGED codecVars
    /\ UNCHANGED layoutVars

\* process, the fallback when no module was detected
ExtractFrameFallback ==
    /\ ppc = "not_found"
    /\ LET r == _extract_assuming_full_frame(pre, photo)
       IN  /\ loc' = [ found |-> FALSE,
                       crops |-> r.crops,
                       scale_px_per_mm |-> r.scale,
                       rotation_angle |-> r.rotation,
                       detection_method |-> "frame_fallback" ]
           /\ pre' = [ pre EXCEPT !.debug_images =
                         @ \cup (IF pre.debug THEN {"04_all_orientations"} ELSE {}),
                                  !.module_spec = r.spec ]
    /\ ppc' = "extracted"
    /\ UNCHANGED <<args, photo, files, outcome, reports>>
    /\ UNCHANGED codecVars
    /\ UNCHANGED layoutVars

\* process: the result dictionary, and _save_outputs
ReturnResult ==
    /\ ppc = "extracted"
    /\ outcome' =
         IF loc.crops = <<>>
         THEN [ success |-> FALSE, error |-> "Could not extract Micro-ID region" ]
         ELSE [ success |-> TRUE,
                cropped_images |-> loc.crops,
                detection_method |-> loc.detection_method,
                scale_px_per_mm |-> loc.scale_px_per_mm,
                rotation_angle |-> loc.rotation_angle,
                debug_images |-> IF pre.debug THEN pre.debug_images ELSE {} ]
    /\ ppc' = "done"
    /\ UNCHANGED <<args, photo, files, pre, loc, reports>>
    /\ UNCHANGED codecVars
    /\ UNCHANGED layoutVars

\* what an element of the list of crops holds: an image array, that is its
\* shape and the pixels as processed
CropArray(crop) == [ w |-> crop.w, h |-> crop.h, steps |-> crop.steps ]

\* the crop files _save_outputs wrote: <base>_crop_<i>.jpg for i = 0, 1, ...
SavedCrops == IF outcome # <<>> /\ outcome.success THEN outcome.cropped_images ELSE <<>>

\* decode-visual-grid.py run on the next crop file: the reader's answer is
\* converted by grid_to_serial and printed
DecodeCrop ==
    /\ ppc = "done"
    /\ Len(reports) < Len(SavedCrops)
    /\ \E answer \in ReaderAnswers(photo.serial, SavedCrops[Len(reports) + 1]) :
         LET res == grid_to_serial(answer)
         IN  reports' = Append(reports, [ answer |-> answer, res |-> res,
                                          shown |-> PrintsDecoded(res) ])
    /\ UNCHANGED <<ppc, args, photo, files, pre, loc, outcome>>
    /\ UNCHANGED codecVars
    /\ UNCHANGED layoutVars

PipeNext ==
    \/ Construct
    \/ ReadImage
    \/ DetectModuleOutline
    \/ ExtractCoordinateBased
    \/ ExtractFrameFallback
    \/ ReturnResult
    \/ DecodeCrop

PipelineSpec == PipeInit /\ [][PipeNext]_vars

(***************************************************************************)
(* main given a directory: the files are processed one after the other by  *)
(* the same preprocessor.                                                  *)
(***************************************************************************)
BatchInit ==
    /\ pc = "idle"
    /\ serial = 0
    /\ binary = <<>>
    /\ grid = <<>>
    /\ cells = <<>>
    /\ text = <<>>
    /\ flipped = {}
    /\ corrupt = 0
    /\ result = <<>>
    /\ image = <<>>
    /\ ppc = "start"
    /\ args \in CommandLines
    /\ photo \in BatchPhotos
    /\ pre = <<>>
    /\ loc = <<>>
    /\ outcome = <<>>
    /\ reports = <<>>
    /\ \E todo \in SeqsUpTo(BatchPhotos, MaxFiles - 1) : files = [ todo |-> todo, done |-> 0 ]
    /\ LayoutIdle

\* main: for f in files: result = preprocessor.process(str(f), args.output)
NextFile ==
    /\ ppc = "done"
    /\ files.todo # <<>>
    /\ photo' = Head(files.todo)
    /\ files' = [ todo |-> Tail(files.todo), done |-> files.done + 1 ]
    /\ loc' = <<>>
    /\ outcome' = <<>>
    /\ ppc' = "process"
    /\ UNCHANGED <<args, pre, reports>>
    /\ UNCHANGED codecVars
    /\ UNCHANGED layoutVars

BatchNext ==
    \/ Construct
    \/ ReadImage
    \/ DetectModuleOutline
    \/ ExtractCoordinateBased
    \/ ExtractFrameFallback
    \/ ReturnResult
    \/ NextFile

BatchSpec == BatchInit /\ [][BatchNext]_vars

(***************************************************************************)
(* _extract_microid_region given the box of a module that may lie at any   *)
(* angle: the corners are classified and the way of placing the region is  *)
(* chosen.                                                                 *)
(***************************************************************************)
MaxShift == 3
MaxUnits == 3

\* the directions of the first side of the boxes tried
BoxDirections == { <<1, 0>>, <<1, 1>>, <<2, 1>>, <<1, 2>>, <<1, 3>> }

\* the lengths of the two sides in units of the direction: squares, and
\* rectangles of aspect 5/6 that pass the aspect filter
BoxSides == { <<a, a>> : a \in 1 .. MaxUnits } \cup { <<5, 6>>, <<6, 5>> }

\* box = np.int32(cv2.boxPoints(rect)): the 4 corners of a rectangle with
\* sides a * e and b * perp(e), in the order around the box, from corner st on
RotatedBox(e, a, b, sx, sy, st) ==
    LET p0 == <<sx + b * e[2], sy>>
        p1 == <<p0[1] + a * e[1], p0[2] + a * e[2]>>
        p2 == <<p1[1] - b * e[2], p1[2] + b * e[1]>>
        p3 == <<p0[1] - b * e[2], p0[2] + b * e[1]>>
        around == <<p0, p1, p2, p3>>
    IN  [ i \in 1 .. 4 |-> around[((i - 1 + st) % 4) + 1] ]

RotatedBoxes ==
    { RotatedBox(e, ab[1], ab[2], sx, sy, st) :
        e \in BoxDirections, ab \in BoxSides,
        sx \in 0 .. MaxShift, sy \in 0 .. MaxShift, st \in 0 .. 3 }

CornerInit ==
    /\ pc = "idle"
    /\ serial = 0
    /\ binary = <<>>
    /\ grid = <<>>
    /\ cells = <<>>
    /\ text = <<>>
    /\ flipped = {}
    /\ corrupt = 0
    /\ result = <<>>
    /\ image = <<>>
    /\ ppc = "corners"
    /\ args = <<>>
    /\ photo = <<>>
    /\ pre = <<>>
    /\ \E corners \in RotatedBoxes : loc = [ corners |-> corners ]
    /\ outcome = <<>>
    /\ reports = <<>>
    /\ files = [ todo |-> <<>>, done |-> 0 ]
    /\ LayoutIdle

\* corners_sorted = self._sort_corners(corners, rotation); if it is None the
\* region is placed from the center, else bottom_left = corners_sorted[0]
SortCorners ==
    /\ ppc = "corners"
    /\ LET corners_sorted == _sort_corners(loc.corners)
       IN  loc' = IF corners_sorted = <<>>
                  THEN [ corners |-> loc.corners, corners_sorted |-> <<>>,
                         placed_from |-> "center", bottom_left |-> <<>> ]
                  ELSE [ corners |-> loc.corners, corners_sorted |-> corners_sorted,
                         placed_from |-> "bottom_left",
                         bottom_left |-> corners_sorted[1] ]
    /\ ppc' = "sorted"
    /\ UNCHANGED <<args, photo, files, pre, outcome, reports>>
    /\ UNCHANGED codecVars
    /\ UNCHANGED layoutVars

CornerNext == SortCorners

CornerSpec == CornerInit /\ [][CornerNext]_vars

(***************************************************************************)
(* Production Layout App v1.4.py: the PCB instances of a PCBViewer and the *)
(* operations of its user on one PCB type.                                 *)
(***************************************************************************)
MaxItems == 3
MaxAdded == 1
MaxExports == 2
MaxInstances == 2
PcbRows == 2
PcbColumns == 1

\* the dictionary load_pcb_data returns for the file of the PCB type
PcbFile == [ Modules |-> PcbRows * PcbColumns, Rows |-> PcbRows, Columns |-> PcbColumns ]

\* the rows of the production file for the PCB type, named by their order number
ProductionRows == [ k \in 1 .. MaxItems |-> k ]

\* the ProductionData add_new_module creates: order_number "N/A"
AddedItem == 0

\* PCBInstance(modules_count, rows, columns)
PCBInstance(modules_count) ==
    [ data |-> <<>>, faulty_modules |-> [ i \in 1 .. modules_count |-> FALSE ] ]

\* instance.clear_all()
clear_all(instance) == PCBInstance(Len(instance.faulty_modules))

\* the loop of initialize_pcb_instances from row i on
RECURSIVE InstancesFrom(_, _, _)
InstancesFrom(matching, i, modules_per_pcb) ==
    IF i >= Len(matching) THEN <<>>
    ELSE << [ PCBInstance(modules_per_pcb) EXCEPT
                !.data = SubSeq(matching, i + 1, Min(i + modules_per_pcb, Len(matching))) ] >>
         \o InstancesFrom(matching, i + modules_per_pcb, modules_per_pcb)

initialize_pcb_instances(matching, pcb) ==
    LET made == InstancesFrom(matching, 0, pcb.Modules)
    IN  IF made = <<>> THEN << PCBInstance(pcb.Modules) >> ELSE made

\* all_data = [item for instance in self.pcb_instances for item in instance.data]
RECURSIVE AllData(_)
AllData(instances) ==
    IF instances = <<>> THEN <<>> ELSE Head(instances).data \o AllData(Tail(instances))

\* a filling loop that does not look at the faulty flags
RECURSIVE FillLoopOverFaulty(_, _, _, _, _)
FillLoopOverFaulty(new_instance, i, modules_per_pcb, all_data, data_index) ==
    IF i >= modules_per_pcb
    THEN [ instance |-> new_instance, data_index |-> data_index ]
    ELSE IF data_index < Len(all_data)
         THEN FillLoopOverFaulty([ new_instance EXCEPT !.data = Append(@, all_data[data_index + 1]) ],
                                 i + 1, modules_per_pcb, all_data, data_index + 1)
         ELSE FillLoopOverFaulty(new_instance, i + 1, modules_per_pcb, all_data, data_index)

\* for i in range(modules_per_pcb): a module that is not faulty takes the
\* next item of all_data, if one is left
RECURSIVE FillLoop(_, _, _, _, _)
FillLoop(new_instance, i, modules_per_pcb, all_data, data_index) ==
    IF i >= modules_per_pcb
    THEN [ instance |-> new_instance, data_index |-> data_index ]
    ELSE IF ~new_instance.faulty_modules[i + 1] /\ data_index < Len(all_data)
         THEN FillLoop([ new_instance EXCEPT !.data = Append(@, all_data[data_index + 1]) ],
                       i + 1, modules_per_pcb, all_data, data_index + 1)
         ELSE FillLoop(new_instance, i + 1, modules_per_pcb, all_data, data_index)

\* for instance in preserved_instances, from instance k on: the loop ends
\* with the instance that takes the last item
RECURSIVE PreservedLoop(_, _, _, _, _, _)
PreservedLoop(preserved_instances, k, modules_per_pcb, all_data, data_index, out) ==
    IF k > Len(preserved_instances)
    THEN [ pcb_instances |-> out, data_index |-> data_index ]
    ELSE LET f == FillLoop([ PCBInstance(modules_per_pcb) EXCEPT
                               !.faulty_modules = preserved_instances[k].faulty_modules ],
                           0, modules_per_pcb, all_data, data_index)
         IN  IF f.data_index >= Len(all_data)
             THEN [ pcb_instances |-> Append(out, f.instance), data_index |-> f.data_index ]
             ELSE PreservedLoop(preserved_instances, k + 1, modules_per_pcb, all_data,
                                f.data_index, Append(out, f.instance))

\* while data_index < len(all_data): new instances take the items left
RECURSIVE LeftOverLoop(_, _, _, _)
LeftOverLoop(modules_per_pcb, all_data, data_index, out) ==
    IF data_index >= Len(all_data) THEN out
    ELSE LET f == FillLoop(PCBInstance(modules_per_pcb), 0, modules_per_pcb, all_data, data_index)
         IN  LeftOverLoop(modules_per_pcb, all_data, f.data_index, Append(out, f.instance))

\* redistribute_data: the instances and the index it leaves
redistribute_data(pcb, instances, index) ==
    IF instances = <<>>
    THEN [ pcb_instances |-> instances, current_instance_index |-> index ]
    ELSE LET all_data == AllData(instances)
             kept == PreservedLoop(instances, 1, pcb.Modules, all_data, 0, <<>>)
             filled == LeftOverLoop(pcb.Modules, all_data, kept.data_index, kept.pcb_instances)
             made == IF filled = <<>> THEN << PCBInstance(pcb.Modules) >> ELSE filled
         IN  [ pcb_instances |-> made,
               current_instance_index |-> IF index >= Len(made) THEN Len(made) - 1 ELSE index ]

\* update_ui_after_changes: redistribute_data is called if there are instances
update_ui_after_changes(pcb, instances, index) ==
    IF instances # <<>> THEN redistribute_data(pcb, instances, index)
    ELSE [ pcb_instances |-> instances, current_instance_index |-> index ]

\* what the call of redistribute_data made by update_ui_after_changes leaves
\* in the record of the last call
LastCall(instances, after) ==
    IF instances # <<>> THEN [ before |-> instances, after |-> after.pcb_instances ]
    ELSE redistributed

\* self.pcb_instances[self.current_instance_index] does not raise IndexError
IndexOk(instances, index) == index >= 0 /\ index < Len(instances)

\* seq.pop(i) for i counted from 0
PopAt(seq, i) == SubSeq(seq, 1, i) \o SubSeq(seq, i + 2, Len(seq))

LayoutInit ==
    /\ pc = "idle"
    /\ serial = 0
    /\ binary = <<>>
    /\ grid = <<>>
    /\ cells = <<>>
    /\ text = <<>>
    /\ flipped = {}
    /\ corrupt = 0
    /\ result = <<>>
    /\ image = <<>>
    /\ PipeIdle
    /\ LayoutIdle

\* on_pcb_selected with a PCB type chosen; load_pcb_data returns the
\* dictionary or, when the file cannot be read, None
SelectPcb ==
    /\ \E loads \in BOOLEAN :
         IF loads
         THEN /\ pcb_data' = PcbFile
              /\ pcb_instances' = initialize_pcb_instances(ProductionRows, PcbFile)
              /\ canvas_bound' = TRUE
              /\ add_module_button' = "normal"
         ELSE /\ pcb_data' = <<>>
              /\ pcb_instances' = <<>>
              /\ canvas_bound' = canvas_bound
              /\ add_module_button' = "disabled"
    /\ current_instance_index' = 0
    /\ UNCHANGED <<file_number, exported, index_error, redistributed, added>>
    /\ UNCHANGED <<codecVars, pipeVars>>

\* on_pcb_selected with the entry "Select a PCB" chosen
SelectPlaceholder ==
    /\ pcb_instances' = <<>>
    /\ current_instance_index' = 0
    /\ add_module_button' = "disabled"
    /\ UNCHANGED <<pcb_data, file_number, canvas_bound, exported, index_error,
                   redistributed, added>>
    /\ UNCHANGED <<codecVars, pipeVars>>

\* refresh_production_data, the production file being read again
RefreshProductionData ==
    /\ pcb_instances' = <<>>
    /\ current_instance_index' = 0
    /\ add_module_button' = "disabled"
    /\ UNCHANGED <<pcb_data, file_number, canvas_bound, exported, index_error,
                   redistributed, added>>
    /\ UNCHANGED <<codecVars, pipeVars>>

\* clear_fret, the user confirming
ClearFret ==
    /\ pcb_data # <<>>
    /\ LET fresh == << PCBInstance(pcb_data.Modules) >>
           after == update_ui_after_changes(pcb_data, fresh, 0)
       IN  /\ pcb_instances' = after.pcb_instances
           /\ current_instance_index' = after.current_instance_index
           /\ redistributed' = LastCall(fresh, after)
    /\ add_module_button' = "normal"
    /\ canvas_bound' = TRUE
    /\ UNCHANGED <<pcb_data, file_number, exported, index_error, added>>
    /\ UNCHANGED <<codecVars, pipeVars>>

PrevPcb ==
    /\ current_instance_index > 0
    /\ current_instance_index' = current_instance_index - 1
    /\ UNCHANGED <<pcb_data, pcb_instances, file_number, add_module_button, canvas_bound,
                   exported, index_error, redistributed, added>>
    /\ UNCHANGED <<codecVars, pipeVars>>

NextPcb ==
    /\ current_instance_index < Len(pcb_instances) - 1
    /\ current_instance_index' = current_instance_index + 1
    /\ UNCHANGED <<pcb_data, pcb_instances, file_number, add_module_button, canvas_bound,
                   exported, index_error, redistributed, added>>
    /\ UNCHANGED <<codecVars, pipeVars>>

\* toggle_module_faulty for a click on module i (counted from 0) of the
\* PCB drawn last; with pcb_data None the handler ends in a TypeError before
\* anything is indexed
ToggleModuleFaulty ==
    /\ canvas_bound
    /\ pcb_data # <<>>
    /\ Len(pcb_instances) <= MaxInstances
    /\ \E i \in 0 .. pcb_data.Modules - 1 :
         IF ~IndexOk(pcb_instances, current_instance_index)
         THEN /\ index_error' = TRUE
              /\ UNCHANGED <<pcb_instances, current_instance_index, redistributed>>
         ELSE LET toggled == [ pcb_instances EXCEPT
                                 ![current_instance_index + 1].faulty_modules[i + 1] = ~@ ]
                  after == redistribute_data(pcb_data, toggled, current_instance_index)
              IN  /\ pcb_instances' = after.pcb_instances
                  /\ current_instance_index' = after.current_instance_index
                  /\ redistributed' = [ before |-> toggled, after |-> after.pcb_instances ]
                  /\ index_error' = index_error
    /\ UNCHANGED <<pcb_data, file_number, add_module_button, canvas_bound, exported, added>>
    /\ UNCHANGED <<codecVars, pipeVars>>

\* toggle_row for the checkbox of a row, is_faulty being the value the
\* checkbox shows after the click
ToggleRow ==
    /\ pcb_instances # <<>>
    /\ current_instance_index < Len(pcb_instances)
    /\ Len(pcb_instances) <= MaxInstances
    /\ \E row \in 0 .. pcb_data.Rows - 1, is_faulty \in BOOLEAN :
         LET current_instance == pcb_instances[current_instance_index + 1]
             marked == [ i \in 1 .. Len(current_instance.faulty_modules) |->
                           IF i - 1 \in row * pcb_data.Columns .. (row + 1) * pcb_data.Columns - 1
                           THEN is_faulty
                           ELSE current_instance.faulty_modules[i] ]
             toggled == [ pcb_instances EXCEPT
                            ![current_instance_index + 1].faulty_modules = marked ]
             after == redistribute_data(pcb_data, toggled, current_instance_index)
         IN  /\ pcb_instances' = after.pcb_instances
             /\ current_instance_index' = after.current_instance_index
             /\ redistributed' = [ before |-> toggled, after |-> after.pcb_instances ]
    /\ UNCHANGED <<pcb_data, file_number, add_module_button, canvas_bound, exported,
                   index_error, added>>
    /\ UNCHANGED <<codecVars, pipeVars>>

\* toggle_column for the checkbox of a column
ToggleColumn ==
    /\ pcb_instances # <<>>
    /\ current_instance_index < Len(pcb_instances)
    /\ Len(pcb_instances) <= MaxInstances
    /\ \E col \in 0 .. pcb_data.Columns - 1, is_faulty \in BOOLEAN :
         LET current_instance == pcb_instances[current_instance_index + 1]
             marked == [ i \in 1 .. Len(current_instance.faulty_modules) |->
                           IF (i - 1) % pcb_data.Columns = col
                           THEN is_faulty
                           ELSE current_instance.faulty_modules[i] ]
             toggled == [ pcb_instances EXCEPT
                            ![current_instance_index + 1].faulty_modules = marked ]
             after == redistribute_data(pcb_data, toggled, current_instance_index)
         IN  /\ pcb_instances' = after.pcb_instances
             /\ current_instance_index' = after.current_instance_index
             /\ redistributed' = [ before |-> toggled, after |-> after.pcb_instances ]
    /\ UNCHANGED <<pcb_data, file_number, add_module_button, canvas_bound, exported,
                   index_error, added>>
    /\ UNCHANGED <<codecVars, pipeVars>>

\* open_add_module_popup and add_new_module for a quantity of at least 1
AddNewModule ==
    /\ add_module_button = "normal"
    /\ pcb_data # <<>>
    /\ \E quantity \in 1 .. MaxAdded - added :
         /\ added' = added + quantity
         /\ IF ~IndexOk(pcb_instances, current_instance_index)
            THEN /\ index_error' = TRUE
                 /\ UNCHANGED <<pcb_instances, current_instance_index, redistributed>>
            ELSE LET grown == [ pcb_instances EXCEPT
                                  ![current_instance_index + 1].data =
                                      @ \o [ k \in 1 .. quantity |-> AddedItem ] ]
                     after == update_ui_after_changes(pcb_data, grown, current_instance_index)
                 IN  /\ pcb_instances' = after.pcb_instances
                     /\ current_instance_index' = after.current_instance_index
                     /\ redistributed' = LastCall(grown, after)
                     /\ index_error' = index_error
    /\ UNCHANGED <<pcb_data, file_number, add_module_button, canvas_bound, exported>>
    /\ UNCHANGED <<codecVars, pipeVars>>

\* export_svg(batch_mode=False) when the SVG is saved: the file is numbered
\* file_number and the instance exported is removed
ExportSvg ==
    /\ Len(exported) < MaxExports
    /\ pcb_data # <<>>
    /\ pcb_instances # <<>>
    /\ IF ~IndexOk(pcb_instances, current_instance_index)
       THEN /\ index_error' = TRUE
            /\ UNCHANGED <<pcb_instances, current_instance_index, file_number, exported,
                           redistributed>>
       ELSE /\ pcb_instances[current_instance_index + 1].data # <<>>
            /\ exported' = Append(exported, file_number)
            /\ file_number' = file_number + 1
            /\ LET popped == PopAt(pcb_instances, current_instance_index)
                   left == IF popped = <<>> THEN << PCBInstance(pcb_data.Modules) >> ELSE popped
                   index == IF popped # <<>> /\ current_instance_index >= Len(popped)
                            THEN Len(popped) - 1
                            ELSE current_instance_index
                   after == update_ui_after_changes(pcb_data, left, index)
               IN  /\ pcb_instances' = after.pcb_instances
                   /\ current_instance_index' = after.current_instance_index
                   /\ redistributed' = LastCall(left, after)
            /\ index_error' = index_error
    /\ UNCHANGED <<pcb_data, add_module_button, canvas_bound, added>>
    /\ UNCHANGED <<codecVars, pipeVars>>

\* the loop of batch_export_svg from instance i (counted from 1) on: an
\* instance with data is exported by export_svg(batch_mode=True) and, unless
\* saving failed, cleared
RECURSIVE BatchLoop(_, _, _, _, _)
BatchLoop(instances, i, fails, number, saved) ==
    IF i > Len(instances)
    THEN [ pcb_instances |-> instances, file_number |-> number, exported |-> saved ]
    ELSE IF instances[i].data # <<>> /\ i \notin fails
         THEN BatchLoop([ instances EXCEPT ![i] = clear_all(@) ], i + 1, fails,
                        number + 1, Append(saved, number))
         ELSE BatchLoop(instances, i + 1, fails, number, saved)

\* batch_export_svg; fails are the instances whose SVG could not be saved
BatchExportSvg ==
    /\ Len(exported) < MaxExports
    /\ pcb_data # <<>>
    /\ pcb_instances # <<>>
    /\ \E fails \in SUBSET (1 .. Len(pcb_instances)) :
         LET original_instance_index == current_instance_index
             original_file_number == file_number
             done == BatchLoop(pcb_instances, 1, fails, file_number, exported)
             after == update_ui_after_changes(pcb_data, done.pcb_instances,
                                              original_instance_index)
             all_empty == \A k \in DOMAIN after.pcb_instances :
                              after.pcb_instances[k].data = <<>>
         IN  /\ exported' = done.exported
             /\ file_number' = original_file_number
             /\ redistributed' = LastCall(done.pcb_instances, after)
             /\ pcb_instances' = IF all_empty THEN << PCBInstance(pcb_data.Modules) >>
                                 ELSE after.pcb_instances
             /\ current_instance_index' = IF all_empty THEN 0
                                          ELSE after.current_instance_index
    /\ UNCHANGED <<pcb_data, add_module_button, canvas_bound, index_error, added>>
    /\ UNCHANGED <<codecVars, pipeVars>>

LayoutNext ==
    \/ SelectPcb
    \/ SelectPlaceholder
    \/ RefreshProductionData
    \/ ClearFret
    \/ PrevPcb
    \/ NextPcb
    \/ ToggleModuleFaulty
    \/ ToggleRow
    \/ ToggleColumn
    \/ AddNewModule
    \/ ExportSvg
    \/ BatchExportSvg

LayoutSpec == LayoutInit /\ [][LayoutNext]_vars

(***************************************************************************)
(* Properties of the preprocessor and of the decoding of its crops.        *)
(***************************************************************************)
\* process has returned after trying to extract
Extracted == ppc = "done" /\ photo.readable

\* every saved crop has been read and decoded
AllDecoded == ppc = "done" /\ SavedCrops # <<>> /\ Len(reports) = Len(SavedCrops)

\* the candidates decoded with both flags true
FullyValid ==
    { i \in DOMAIN reports :
        reports[i].res.ok /\ reports[i].res.anchors_valid /\ reports[i].res.parity_valid }

\* the candidates whose text could be decoded
Decodable == { i \in DOMAIN reports : reports[i].res.ok }

\* the candidates whose serial and flags are given out as decoded
Returned == { i \in DOMAIN reports : reports[i].shown }

\* the rotation hypotheses the crops of process stand for
ReturnedRotations == { loc.crops[i].hyp : i \in DOMAIN loc.crops }

\* C8 as claimed: a single fully valid candidate is the one decode given
\* out; with none or several fully valid, all decoded candidates are given
\* out with their flags.
C8_RankingAsClaimed ==
    AllDecoded =>
        IF Cardinality(FullyValid) = 1
        THEN Returned = FullyValid
        ELSE Returned = Decodable

\* C8, amended: every candidate whose text has 25 binary characters is given
\* out with its serial and both flags, whether none, one or several of the
\* candidates are fully valid; none is left out because of its flags.
C8_AllCandidatesReturned ==
    AllDecoded =>
        /\ Returned = Decodable
        /\ \A i \in DOMAIN reports :
             /\ reports[i].res.ok <=> Len(CleanInput(reports[i].answer)) = 25
             /\ reports[i].res.ok =>
                  /\ reports[i].res.serial \in 0 .. 1048575
                  /\ reports[i].res.anchors_valid \in BOOLEAN
                  /\ reports[i].res.parity_valid \in BOOLEAN

\* two rotations of one picture decode fully valid to different serials and
\* both are given out, next to a candidate that is not valid
C8_Witness ==
    /\ AllDecoded
    /\ Len(reports) = 4
    /\ \E i, j \in FullyValid :
         /\ reports[i].res.serial # reports[j].res.serial
         /\ {i, j} \subseteq Returned
    /\ \E k \in Returned : k \notin FullyValid

\* the shorter side from which the frame fallback cuts a region of at least
\* one pixel
MinShorterSide == IF pre.tight_crop THEN 11 ELSE 7

\* C9 as claimed: when no module is located, process returns exactly 4
\* crops, one per rotation, and does not report failure.
C9_FallbackAlwaysFour ==
    (Extracted /\ ~loc.found) =>
        /\ outcome.success
        /\ Len(outcome.cropped_images) = 4
        /\ [ i \in 1 .. 4 |-> outcome.cropped_images[i].hyp ] = Rotations

\* C9, amended: when no module is located and the shorter side of the picture
\* is at least 7 px (11 px with tight crop), process returns exactly 4 crops,
\* one per rotation 0, 90, 180, 270; for a smaller picture every region has
\* zero area and process returns the failure "Could not extract Micro-ID
\* region" instead of raising.
C9_FallbackComplete ==
    (Extracted /\ ~loc.found) =>
        IF Min(photo.w, photo.h) >= MinShorterSide
        THEN /\ outcome.success
             /\ outcome.detection_method = "frame_fallback"
             /\ Len(outcome.cropped_images) = 4
             /\ [ i \in 1 .. 4 |-> outcome.cropped_images[i].hyp ] = Rotations
             /\ \A i \in 1 .. 4 : outcome.cropped_images[i].w * outcome.cropped_images[i].h > 0
        ELSE /\ ~outcome.success
             /\ outcome.error = "Could not extract Micro-ID region"
             /\ loc.crops = <<>>

C9_Witness ==
    /\ Extracted
    /\ ~loc.found
    /\ Min(photo.w, photo.h) = MinShorterSide
    /\ photo.w # photo.h
    /\ outcome.success
    /\ Len(outcome.cropped_images) = 4

\* the rotation hypotheses whose computed region has an area: with a module
\* located the four share the corner-based region, or the centroid-based
\* one where that is empty; without a module each has its own region
WithRegion ==
    IF loc.found
    THEN IF /\ EmptyCrop(CornerRegion(pre, photo, loc.corners, loc.scale_px_per_mm,
                                      loc.rotation_angle))
            /\ EmptyCrop(CenterRegion(pre, photo, loc.corners, loc.scale_px_per_mm,
                                      loc.rotation_angle))
         THEN {}
         ELSE {0, 90, 180, 270}
    ELSE { r \in {0, 90, 180, 270} :
             ~EmptyCrop(FrameRegion(pre.module_spec, photo.w, photo.h, r, pre.tight_crop)) }

C11_UnknownModuleType ==
    ppc # "start" =>
        IF args.module \in {"SZ-04"}
        THEN /\ ppc # "exit1"
             /\ pre # <<>>
             /\ pre.module_spec = SZ04
             /\ pre.module_spec.name = args.module
        ELSE /\ ppc = "exit1"
             /\ pre = <<>>
             /\ loc = <<>>
             /\ outcome = <<>>
             /\ reports = <<>>

C11_Witness ==
    /\ ppc = "exit1"
    /\ args.module = "SZ-05"
    /\ photo.readable
    /\ pre = <<>>

\* C12: whatever files have been processed, on whatever path and with
\* whatever flags, the record of the module in the MODULE_SPECS table that
\* the preprocessor refers to has the field values it had at startup.
C12_ModuleSpecImmutable ==
    pre # <<>> =>
        /\ pre.module_spec = MODULE_SPECS[args.module]
        /\ pre.module_spec =
             [ name |-> "SZ-04", width_mm |-> 200000, height_mm |-> 200000,
               microid_x_mm |-> 41281, microid_y_mm |-> 62953,
               microid_size_mm |-> 18250, microid_padding_mm |-> 3000 ]

\* a second file has gone through the frame fallback with a tight crop after
\* a module was located in the first
C12_Witness ==
    /\ ppc = "done"
    /\ files.done = 1
    /\ pre.tight_crop
    /\ pre.debug
    /\ "03_module_detected" \in pre.debug_images
    /\ outcome.success
    /\ outcome.detection_method = "frame_fallback"

\* the module fills the 2000 x 2000 picture and process has returned
ExampleDone == Extracted /\ photo \in FrameFilled

\* C13 as claimed: for the frame-filling SZ-04 module at 0 degrees the scale
\* is 100 px/mm and the centre of the crop is within a few (5) pixels of
\* (504, 1279).
C13_ExampleAsClaimed ==
    ExampleDone =>
        /\ outcome.success
        /\ outcome.scale_px_per_mm.num * MM_UNITS = 100 * outcome.scale_px_per_mm.den
        /\ Abs(outcome.cropped_images[1].x1 + outcome.cropped_images[1].x2 - 2 * 504) <= 2 * 5
        /\ Abs(outcome.cropped_images[1].y1 + outcome.cropped_images[1].y2 - 2 * 1279) <= 2 * 5

\* C13, amended: the outline of a module that fills the frame covers more
\* than 95% of the picture and is not taken for a module, so the frame
\* fallback places the crops with 0.9 * 2000 / 20 = 90 px/mm: the crop of the
\* 0 degree hypothesis is the square 389..717 x 1087..1415 (454..652 x
\* 1152..1350 with a tight crop), centred at (553, 1251).
C13_ExampleFallback ==
    ExampleDone =>
        /\ outcome.success
        /\ outcome.detection_method = "frame_fallback"
        /\ outcome.rotation_angle = 0
        /\ ~pre.raw_color =>
             outcome.scale_px_per_mm.num * MM_UNITS = 90 * outcome.scale_px_per_mm.den
        /\ LET crop == outcome.cropped_images[1]
           IN  /\ crop.hyp = 0
               /\ crop.x1 + crop.x2 = 2 * 553
               /\ crop.y1 + crop.y2 = 2 * 1251
               /\ crop.x2 - crop.x1 = crop.y2 - crop.y1
               /\ <<crop.x1, crop.x2, crop.y1, crop.y2>> =
                    IF pre.tight_crop THEN <<454, 652, 1152, 1350>>
                    ELSE <<389, 717, 1087, 1415>>

C13_Witness ==
    /\ ExampleDone
    /\ photo.contours # <<>>
    /\ outcome.success
    /\ Len(outcome.cropped_images) = 4
    /\ ~pre.tight_crop

\* C14: the dictionary process returns for a file is the one a preprocessor
\* fresh from construction with the same flags returns for that file,
\* whatever files were processed before.
C14_NoStateAcrossCalls ==
    ppc = "done" =>
        outcome = process(MicroIDPreprocessor(args.module, args.debug, args.tight, args.raw),
                          photo)

\* C15 as claimed: every crop returned carries the rotation hypothesis it
\* stands for, and no two crops carry the same.
C15_TaggedAsClaimed ==
    (Extracted /\ outcome.success) =>
        /\ \A i \in DOMAIN outcome.cropped_images :
             /\ "hyp" \in DOMAIN CropArray(outcome.cropped_images[i])
             /\ CropArray(outcome.cropped_images[i]).hyp = outcome.cropped_images[i].hyp
        /\ \A i, j \in DOMAIN outcome.cropped_images :
             outcome.cropped_images[i].hyp = outcome.cropped_images[j].hyp => i = j

\* C15, amended: a crop returned is a bare image and carries no rotation;
\* the rotation hypothesis it stands for is given by its position alone, the
\* crop at index i of the list (file <base>_crop_<i>.jpg) standing for
\* 90 * i degrees, with at most one crop per hypothesis.
C15_RotationByPosition ==
    Extracted =>
        /\ Len(loc.crops) <= 4
        /\ \A i \in DOMAIN loc.crops :
             /\ loc.crops[i].hyp = 90 * (i - 1)
             /\ DOMAIN CropArray(loc.crops[i]) = {"w", "h", "steps"}
        /\ outcome.success => outcome.cropped_images = loc.crops

C15_Witness ==
    /\ Extracted
    /\ loc.found
    /\ loc.rotation_angle = 90
    /\ outcome.success
    /\ Len(outcome.cropped_images) = 4
    /\ outcome.cropped_images[4].hyp = 270

\* C16: with raw mode requested every crop returned has been resized and
\* nothing else, on every extraction path.
C16_RawModeResizeOnly ==
    (Extracted /\ pre.raw_color /\ outcome.success) =>
        \A i \in DOMAIN outcome.cropped_images :
            outcome.cropped_images[i].steps = <<"resize">>

\* C17: for every serial and every cell size the picture main saves reads
\* back, dot or no dot at the middle of each cell, row by row, as the text of
\* the grid, and holds a disc centred in exactly the cells whose bit is 1.
C17_RenderInverse ==
    pc = "saved" =>
        /\ \A row \in 0 .. 4, col \in 0 .. 4 :
             DotCentre(row, col, image.cell_size) \in image.dots <=> grid[row][col] = 1
        /\ ReadPicture(image) = GridText(grid)

\* a module was located and the region placed from its bottom-left corner
PlacedFromCorner == ppc \in {"extracted", "done"} /\ loc # <<>> /\ loc.found

\* C18: with a module located, for every detected rotation the centre of the
\* crop is the bottom-left corner plus the whole offset (microid_x_mm +
\* size / 2, microid_y_mm + size / 2) * scale rotated by the angle, the
\* rotated y component subtracted.
C18_CentreRotatesWholeOffset ==
    PlacedFromCorner =>
        LET spec == pre.module_spec
            c == MicroidCentre(spec, _sort_corners(loc.corners)[1],
                               loc.scale_px_per_mm, loc.rotation_angle)
            cos_a == Cos90(loc.rotation_angle)
            sin_a == Sin90(loc.rotation_angle)
            ox == 2 * spec.microid_x_mm + spec.microid_size_mm
            oy == 2 * spec.microid_y_mm + spec.microid_size_mm
        IN  /\ c.x = _sort_corners(loc.corners)[1][1]
            /\ c.y = _sort_corners(loc.corners)[1][2]
            /\ c.d = 2 * loc.scale_px_per_mm.den
            /\ c.nx = (ox * cos_a - oy * sin_a) * loc.scale_px_per_mm.num
            /\ c.ny = -(ox * sin_a + oy * cos_a) * loc.scale_px_per_mm.num

\* int(tenths / 10 * mm * scale) pixels; the lengths of the table are whole
\* multiples of 10 units
PixelsOf(tenths, mm, scale) == (((tenths * mm) \div 10) * scale.num) \div scale.den

\* the scale the regions were placed with
PlacingScale ==
    IF loc.found THEN loc.scale_px_per_mm
    ELSE [ num |-> 9 * Min(photo.w, photo.h),
           den |-> 10 * Max(pre.module_spec.width_mm, pre.module_spec.height_mm) ]

\* the region of the crop was not clipped at the border of the picture
Unclipped(crop) ==
    /\ crop.x1 >= 1
    /\ crop.y1 >= 1
    /\ crop.x2 < Min(photo.w, photo.h)
    /\ crop.y2 < Min(photo.w, photo.h)

\* every unclipped region returned is a square of the given side
RegionsAreSquaresOf(side) ==
    \A i \in DOMAIN outcome.cropped_images :
        Unclipped(outcome.cropped_images[i]) =>
            /\ outcome.cropped_images[i].x2 - outcome.cropped_images[i].x1 = side
            /\ outcome.cropped_images[i].y2 - outcome.cropped_images[i].y1 = side

\* C19 as claimed: on every path the region cut is a square of
\* 1.6 * footprint * scale pixels.
C19_CropSizeAsClaimed ==
    (Extracted /\ outcome.success) =>
        RegionsAreSquaresOf(PixelsOf(16, pre.module_spec.microid_size_mm, PlacingScale))

\* C19, amended: the region cut is a square whose side is, in whole pixels,
\* 1.6 * footprint * scale when a module was located (placed from the
\* bottom-left corner or from the centroid), and without a module
\* 2.0 * footprint * scale, or 1.8 * (footprint - 2 * padding) * scale with
\* a tight crop.
C19_CropSize ==
    (Extracted /\ outcome.success) =>
        RegionsAreSquaresOf(
            IF loc.found
            THEN PixelsOf(16, pre.module_spec.microid_size_mm, PlacingScale)
            ELSE IF pre.tight_crop
                 THEN PixelsOf(18, pre.module_spec.microid_size_mm
                                     - 2 * pre.module_spec.microid_padding_mm, PlacingScale)
                 ELSE PixelsOf(20, pre.module_spec.microid_size_mm, PlacingScale))

\* a module of 10 x 10 pixels was located and the region of one pixel placed
\* from its corner lies inside the picture
C19_Witness ==
    /\ Extracted
    /\ outcome.success
    /\ loc.found
    /\ loc.rotation_angle = 0
    /\ Unclipped(outcome.cropped_images[1])
    /\ outcome.cropped_images[1].x2 - outcome.cropped_images[1].x1 = 1
    /\ loc.scale_px_per_mm.num = 10

\* the corner lies strictly on the side (sx, sy) of the centroid of the
\* corners: sx, sy = -1 for left / above, 1 for right / below (y grows down)
InQuadrant(corner, corners, sx, sy) ==
    LET mx == SumSeq([ i \in DOMAIN corners |-> corners[i][1] ])
        my == SumSeq([ i \in DOMAIN corners |-> corners[i][2] ])
    IN  /\ sx * (4 * corner[1] - mx) > 0
        /\ sy * (4 * corner[2] - my) > 0

\* the input corners that lie in the quadrant
CornersIn(corners, sx, sy) ==
    { i \in DOMAIN corners : InQuadrant(corners[i], corners, sx, sy) }

\* bottom-left, top-left, top-right, bottom-right
Quadrants == << <<-1, 1>>, <<-1, -1>>, <<1, -1>>, <<1, 1>> >>

\* C20: _sort_corners returns the 4 corners ordered [BL, TL, TR, BR] by
\* quadrant about the centroid, or reports failure; it reports failure when
\* no corner lies strictly left of and below the centroid or two corners
\* share a quadrant, and the region is then placed from the center.
C20_CornerClassification ==
    ppc = "sorted" =>
        LET corners == loc.corners
            sorted == loc.corners_sorted
            failed == sorted = <<>>
        IN  /\ ~failed =>
                  /\ Len(sorted) = 4
                  /\ { sorted[k] : k \in 1 .. 4 } = { corners[i] : i \in 1 .. 4 }
                  /\ \A k \in 1 .. 4 :
                        InQuadrant(sorted[k], corners, Quadrants[k][1], Quadrants[k][2])
                  /\ loc.placed_from = "bottom_left"
                  /\ loc.bottom_left = sorted[1]
            /\ ( \/ CornersIn(corners, -1, 1) = {}
                 \/ \E k \in 1 .. 4 :
                      Cardinality(CornersIn(corners, Quadrants[k][1], Quadrants[k][2])) > 1 )
                  => failed
            /\ failed => loc.placed_from = "center"

\* _detect_module_outline has just returned
Detected == ppc \in {"located", "not_found"}

\* the area is at least lo% and at most 95% of the area of the picture
AreaWithin(area, lo) ==
    /\ 100 * area >= lo * photo.w * photo.h
    /\ 100 * area <= 95 * photo.w * photo.h

\* contour i has a box of non-zero sides and a squareness above 0.8
SquareBox(i) ==
    LET c == photo.contours[i]
        bw == c.x1 - c.x0
        bh == c.y1 - c.y0
    IN  /\ bw > 0
        /\ bh > 0
        /\ 10 * Min(bw, bh) > 8 * Max(bw, bh)

\* the contours with an area of at least lo% of the picture are exactly the
\* ones the area filter keeps: one of them is the module found, and a square
\* one among them is never passed over
KeptFrom(lo) ==
    /\ loc.found =>
          \E i \in DOMAIN photo.contours :
              /\ BoxPoints(photo.contours[i]) = loc.corners
              /\ AreaWithin(photo.contours[i].area, lo)
    /\ (\E i \in DOMAIN photo.contours :
            AreaWithin(photo.contours[i].area, lo) /\ SquareBox(i)) => loc.found

Qualifies(i) == AreaWithin(photo.contours[i].area, 10) /\ SquareBox(i)

\* score(i) >= score(j), the score being area * min(boxW, boxH) / max(boxW, boxH)
ScoreAtLeast(i, j) ==
    LET ci == photo.contours[i]
        cj == photo.contours[j]
        mini == Min(ci.x1 - ci.x0, ci.y1 - ci.y0)
        maxi == Max(ci.x1 - ci.x0, ci.y1 - ci.y0)
        minj == Min(cj.x1 - cj.x0, cj.y1 - cj.y0)
        maxj == Max(cj.x1 - cj.x0, cj.y1 - cj.y0)
    IN  ci.area * mini * maxj >= cj.area * minj * maxi

\* C22: locate selects a qualifying contour of maximal score area x
\* squareness, and it returns NotFound if and only if no contour qualifies.
C22_SelectsHighestScore ==
    Detected =>
        /\ loc.found <=> (\E i \in DOMAIN photo.contours : Qualifies(i))
        /\ loc.found =>
              \E i \in DOMAIN photo.contours :
                  /\ Qualifies(i)
                  /\ BoxPoints(photo.contours[i]) = loc.corners
                  /\ \A j \in DOMAIN photo.contours : Qualifies(j) => ScoreAtLeast(i, j)

\* two contours qualify, the first has the larger area and the second, of
\* the higher score, was selected
C22_Witness ==
    /\ ppc = "located"
    /\ Len(photo.contours) = 2
    /\ Qualifies(1)
    /\ Qualifies(2)
    /\ photo.contours[1].area > photo.contours[2].area
    /\ ~ScoreAtLeast(1, 2)
    /\ loc.corners = BoxPoints(photo.contours[2])

\* the sum lo + hi of the two ends of an unclipped region brackets twice the
\* coordinate side / 2 + sign * (corner + size / 2 - extent / 2) * scale of
\* its center, the scale being 0.9 * shorter / longest px/mm
CentredAt(lo, hi, side, sign, corner, size, extent, shorter, longest) ==
    LET off2 == sign * (2 * corner + size - extent) * 9 * shorter
        den == 10 * longest
    IN  /\ (lo + hi - side) * den <= off2
        /\ off2 < (lo + hi + 2 - side) * den

\* C23: without a located module, every rotation in {0, 90, 180, 270} is
\* tried on the whole picture rotated first, the scale is 0.9 x the shorter
\* side of the rotated picture over the longest side of the module, the
\* Micro-ID center is the center of the rotated picture plus the offset of
\* the Micro-ID center from the module center times the scale, with the
\* y-offset negated, and the rotation reported is 0 degrees.
C23_FrameFallbackGeometry ==
    (Extracted /\ outcome.success /\ outcome.detection_method = "frame_fallback") =>
        /\ outcome.rotation_angle = 0
        /\ \A i \in DOMAIN outcome.cropped_images :
              LET crop == outcome.cropped_images[i]
                  spec == pre.module_spec
                  rw == IF crop.hyp \in {0, 180} THEN photo.w ELSE photo.h
                  rh == IF crop.hyp \in {0, 180} THEN photo.h ELSE photo.w
                  longest == Max(spec.width_mm, spec.height_mm)
              IN  /\ crop.hyp = 90 * (i - 1)
                  /\ crop.frame = crop.hyp
                  /\ Unclipped(crop) =>
                        /\ CentredAt(crop.x1, crop.x2, rw, 1, spec.microid_x_mm,
                                     spec.microid_size_mm, spec.width_mm,
                                     Min(rw, rh), longest)
                        /\ CentredAt(crop.y1, crop.y2, rh, -1, spec.microid_y_mm,
                                     spec.microid_size_mm, spec.height_mm,
                                     Min(rw, rh), longest)

\* the four regions of a picture that is wider than high were cut without
\* clipping
C23_Witness ==
    /\ Extracted
    /\ outcome.success
    /\ outcome.detection_method = "frame_fallback"
    /\ photo.w > photo.h
    /\ Len(outcome.cropped_images) = 4
    /\ \A i \in 1 .. 4 :
          /\ Unclipped(outcome.cropped_images[i])
          /\ outcome.cropped_images[i].x2 > outcome.cropped_images[i].x1

\* report i decodes crop i read without error: the answer is the grid of the
\* module as the crop shows it
ReadAsSeen(i) ==
    reports[i].answer =
        GridText(RotateGrid(binary_to_grid(serial_to_binary(photo.serial)),
                            SavedCrops[i].hyp \div 90))

\* C24: a grid produced by the encoder and seen rotated by a multiple of 90
\* degrees decodes (here the crop decoded last) with anchors_valid and parity_valid both true, so there
\* is a serial whose rotated grid decodes fully valid to a different serial.
C24_RotationTies ==
    (reports # <<>> /\ ReadAsSeen(Len(reports))) =>
        /\ reports[Len(reports)].res.ok
        /\ reports[Len(reports)].res.anchors_valid
        /\ reports[Len(reports)].res.parity_valid

\* a crop turned by 90, 180 or 270 degrees was read without error and
\* decoded fully valid to a serial other than the one on the module
C24_Witness ==
    \E i \in DOMAIN reports :
        /\ SavedCrops[i].hyp # 0
        /\ ReadAsSeen(i)
        /\ reports[i].res.ok
        /\ reports[i].res.anchors_valid
        /\ reports[i].res.parity_valid
        /\ reports[i].res.serial # photo.serial

\* the text decoded has 25 cells and both flags of the result are true
DecodedFullyValid ==
    /\ pc = "decoded"
    /\ result.ok
    /\ result.anchors_valid
    /\ result.parity_valid

\* C25: for every grid of 25 cells that decodes with anchors_valid and
\* parity_valid true, encoding the decoded serial reproduces the grid cell
\* for cell.
C25_ReverseRoundTrip ==
    DecodedFullyValid =>
        /\ result.serial \in 0 .. 1048575
        /\ GridText(binary_to_grid(serial_to_binary(result.serial))) = CleanInput(text)

\* a grid other than the one encoded at the start (the reader got two cells
\* wrong) decoded fully valid, to another serial
C25_Witness ==
    /\ DecodedFullyValid
    /\ Cardinality(flipped) = 2
    /\ result.serial # serial
    /\ CleanInput(text) # GridText(grid)

\* C26: the pixels of every crop lie inside the square [center - size / 2,
\* center + size / 2] clipped to the picture, whose ends are x1, x2, y1, y2;
\* a square that does not meet the picture gives no crop.
C26_CropContainment ==
    (Extracted /\ outcome.success) =>
        \A i \in DOMAIN outcome.cropped_images :
            LET crop == outcome.cropped_images[i]
            IN  /\ 0 <= crop.x1
                /\ crop.x1 < crop.x2
                /\ 0 <= crop.y1
                /\ crop.y1 < crop.y2

\* two scale records stand for the same number of pixels per mm
SameScale(a, b) == a.num * (b.den \div MM_UNITS) = b.num * (a.den \div MM_UNITS)

\* C27: the scale_px_per_mm that process returns is the scale the crops were
\* placed and sized with, on every path and for every flag setting.
C27_ReportedScale ==
    (Extracted /\ outcome.success) => SameScale(outcome.scale_px_per_mm, PlacingScale)

\* the number of modules of an instance that are not marked faulty
NonFaulty(instance) ==
    Cardinality({ i \in DOMAIN instance.faulty_modules : ~instance.faulty_modules[i] })

\* C28: after every call of redistribute_data the items of all instances in
\* order are the items before the call, no instance holds more items than
\* it has modules that are not faulty, the instances kept have their faulty
\* flags unchanged, and there is at least one instance.
C28_RedistributeKeepsData ==
    redistributed # <<>> =>
        /\ AllData(redistributed.after) = AllData(redistributed.before)
        /\ \A k \in DOMAIN redistributed.after :
              /\ Len(redistributed.after[k].data) <= NonFaulty(redistributed.after[k])
              /\ k <= Len(redistributed.before) =>
                    redistributed.after[k].faulty_modules
                        = redistributed.before[k].faulty_modules
        /\ Len(redistributed.after) >= 1

\* the last call moved items: an instance with a faulty module was kept and
\* an instance was added behind the ones the call was given
C28_Witness ==
    /\ redistributed # <<>>
    /\ Len(redistributed.after) > Len(redistributed.before)
    /\ \E i \in DOMAIN redistributed.after[1].faulty_modules :
          redistributed.after[1].faulty_modules[i]
    /\ redistributed.after[1].data # redistributed.before[1].data
    /\ AllData(redistributed.after) # <<>>

\* C29: no operation indexes pcb_instances by current_instance_index outside
\* 0 <= current_instance_index < len(pcb_instances).
C29_InstanceIndexInRange == ~index_error

\* C30: file_number grows by one with every SVG saved and never decreases,
\* so no two files saved in a session carry the same number.
C30_ExportNumbering ==
    /\ file_number = Len(exported) + 1
    /\ \A i, j \in DOMAIN exported : exported[i] = exported[j] => i = j

====
